---- MODULE Spec2Model ----
(***************************************************************************)
(* Nudge: a bounded discount negotiation behind a chat endpoint, with      *)
(* consent-gated fact-check lookups.                                       *)
(*                                                                         *)
(*   nudge/nudge/pricing_service.py   NegotiationState, PricingService     *)
(*   nudge/nudge/trait_detector.py    TraitDetector                        *)
(*   agent_router.py                  AgentRouter                          *)
(*   discount_service.py              DiscountService                      *)
(*   nudge/nudge/bouncer.py           BouncerAgent                         *)
(*   nudge/nudge/bouncer_api.py       the /api/chat endpoint               *)
(*                                                                         *)
(* Text is modelled as TLA+ strings and the string functions of the code   *)
(* (lower, strip, "in", the regular expressions) are computed on them.     *)
(* Percentages are whole numbers; a confidence is a whole number of        *)
(* hundredths (0..100).  Timestamps of offers are not modelled.            *)
(***************************************************************************)
EXTENDS Integers, Sequences, FiniteSets, TLC

VARIABLES
    cfg,            \* Config: the merchant configuration and what is configured
    sessions,       \* bouncer_api.sessions: session_id -> BouncerAgent fields
    negotiations,   \* PricingService.negotiations: session_id -> NegotiationState
    request,        \* the call being served by the last step
    response,       \* what that call returned
    calls,          \* the external calls that call made, in order
    inflight        \* the requests being served concurrently: their positions in
                    \* bouncer_api.chat, the BouncerAgent objects constructed
                    \* and the object registered for each session_id

vars == <<cfg, sessions, negotiations, request, response, calls, inflight>>

-----------------------------------------------------------------------------
(* Python values *)

\* None, and a present optional value
None == <<>>
Some(v) == <<v>>

\* dict.get(key, default)
Get(d, k, default) == IF k \in DOMAIN d THEN d[k] ELSE default

Min(a, b) == IF a <= b THEN a ELSE b

\* a local variable: In of the value v that was assigned to it
Let(v, In(_)) == In(v)

-----------------------------------------------------------------------------
(* str.  A text is searched as the sequence of its characters. *)

UpperChars == "ABCDEFGHIJKLMNOPQRSTUVWXYZ"
LowerChars == "abcdefghijklmnopqrstuvwxyz"

Char(s, i) == SubSeq(s, i, i)

\* the characters of a string, and the string of a sequence of characters;
\* the characters of the program's own literals are computed once
Literals ==
    { "i work at ", "my company is ", "i'm a ", "i'm an ", " at ", "look up ", "find ",
      " on linkedin", " is ", " are ", "according to ", "i read ", "i heard ", "i saw ",
      " said ", " claims ", " stated ", "i am at ", " is a ", " is an ", " are a ",
      " are an ", " has ", " have ",
      "discount", "deal", "cheaper", "lower price", "reduce", "haggle", "negotiate",
      "offer", "promo", "coupon", "code", "save money", "too expensive", "price",
      "cost", "afford",
      "salon", "stylist", "influencer", "followers", "instagram", "tiktok" }

LiteralChars == [s \in Literals |-> [i \in 1..Len(s) |-> Char(s, i)]]

Chars(s) ==
    IF s \in Literals THEN LiteralChars[s] ELSE [i \in 1..Len(s) |-> Char(s, i)]

RECURSIVE Str(_)
Str(cs) == IF Len(cs) = 0 THEN "" ELSE cs[1] \o Str(Tail(cs))

\* the lower-case letter of every upper-case letter
LowerOf == [c \in {Char(UpperChars, i) : i \in 1..Len(UpperChars)} |->
               Char(LowerChars, CHOOSE i \in 1..Len(UpperChars) : Char(UpperChars, i) = c)]

\* str.lower() of one character, of a sequence of characters and of a string
LowerChar(c) == IF c \in DOMAIN LowerOf THEN LowerOf[c] ELSE c
LowerSeq(cs) == [i \in 1..Len(cs) |-> LowerChar(cs[i])]
Lower(s) == Str(LowerSeq(Chars(s)))

\* str.strip(): leading and trailing blanks removed
RECURSIVE LStrip(_)
LStrip(s) == IF Len(s) > 0 /\ Char(s, 1) = " " THEN LStrip(Tail(s)) ELSE s

RECURSIVE RStrip(_)
RStrip(s) ==
    IF Len(s) > 0 /\ Char(s, Len(s)) = " " THEN RStrip(SubSeq(s, 1, Len(s) - 1)) ELSE s

Strip(s) == RStrip(LStrip(s))

\* the positions at which the characters k occur in the characters t
Occurrences(t, k) ==
    IF Len(k) = 0 THEN 1..(Len(t) + 1)
    ELSE {i \in 1..(Len(t) - Len(k) + 1) :
            t[i] = k[1] /\ SubSeq(t, i, i + Len(k) - 1) = k}

\* k in t
Contains(t, k) == Occurrences(t, k) /= {}

\* sep.join(parts)
RECURSIVE Join(_, _)
Join(sep, parts) ==
    IF Len(parts) = 0 THEN ""
    ELSE IF Len(parts) = 1 THEN parts[1]
    ELSE parts[1] \o sep \o Join(sep, Tail(parts))

SetMin(S) == CHOOSE x \in S : \A y \in S : x <= y
SetMax(S) == CHOOSE x \in S : \A y \in S : x >= y

-----------------------------------------------------------------------------
(* config_loader.py: Config.  The merchant configuration file is not part  *)
(* of the sources; the configurations below are the ones explored.  The    *)
(* first has the defaults of Config's properties.                          *)

\* Config.max_discount_pct .. Config.counter_step_pct, max_trait_bonus_pct,
\* and which collaborators could be constructed (AgentRouter.__init__,
\* DiscountService.__init__)
Configs ==
    { [max_discount_pct |-> 20, floor_margin_pct |-> 18, first_offer_pct |-> 8,
       counter_step_pct |-> 3, max_trait_bonus_pct |-> 10,
       brave_agent |-> TRUE, linkedin_agent |-> TRUE, shopify_client |-> TRUE],
      [max_discount_pct |-> 20, floor_margin_pct |-> 85, first_offer_pct |-> 8,
       counter_step_pct |-> 3, max_trait_bonus_pct |-> 10,
       brave_agent |-> FALSE, linkedin_agent |-> TRUE, shopify_client |-> FALSE],
      [max_discount_pct |-> 12, floor_margin_pct |-> 18, first_offer_pct |-> 8,
       counter_step_pct |-> 3, max_trait_bonus_pct |-> 10,
       brave_agent |-> FALSE, linkedin_agent |-> FALSE, shopify_client |-> FALSE],
      [max_discount_pct |-> 20, floor_margin_pct |-> 18, first_offer_pct |-> 8,
       counter_step_pct |-> 3, max_trait_bonus_pct |-> 10,
       brave_agent |-> TRUE, linkedin_agent |-> FALSE, shopify_client |-> FALSE] }

-----------------------------------------------------------------------------
(* pricing_service.py: NegotiationState *)

max_counters == 3

\* NegotiationState.__init__
NewNegotiationState ==
    [counter |-> 0, max_counters |-> max_counters, current_discount_pct |-> 0,
     offers |-> <<>>]

CeilingError(discount_pct) ==
    "Discount " \o ToString(discount_pct) \o "% exceeds maximum "
        \o ToString(cfg.max_discount_pct) \o "%"

CounterError(neg) == "Maximum " \o ToString(neg.max_counters) \o " counters reached"

FloorError(discount_pct) ==
    "Discount " \o ToString(discount_pct) \o "% would result in margin "
        \o ToString(100 - discount_pct) \o "% below floor "
        \o ToString(cfg.floor_margin_pct) \o "%"

Failure(neg, error) ==
    [neg |-> neg, result |-> [success |-> FALSE, error |-> error, discount_pct |-> None]]

\* the recording of a validated offer (make_offer after its three checks)
Accepted(neg, discount_pct) ==
    LET margin_pct == 100 - discount_pct
        counter == neg.counter + 1
        offer == [counter |-> counter, discount_pct |-> discount_pct,
                  margin_pct |-> margin_pct]
    IN  [neg |-> [neg EXCEPT !.counter = counter,
                             !.current_discount_pct = discount_pct,
                             !.offers = Append(neg.offers, offer)],
         result |-> [success |-> TRUE, discount_pct |-> discount_pct,
                     margin_pct |-> margin_pct, counter |-> counter,
                     remaining_counters |-> neg.max_counters - counter]]

\* make_offer with the floor-margin check left out
make_offer_without_floor(neg, discount_pct) ==
    IF discount_pct > cfg.max_discount_pct
        THEN Failure(neg, CeilingError(discount_pct))
    ELSE IF neg.counter >= neg.max_counters
        THEN Failure(neg, CounterError(neg))
    ELSE Accepted(neg, discount_pct)

\* make_offer with the counter check left out
make_offer_without_counter_check(neg, discount_pct) ==
    IF discount_pct > cfg.max_discount_pct
        THEN Failure(neg, CeilingError(discount_pct))
    ELSE IF 100 - discount_pct < cfg.floor_margin_pct
        THEN Failure(neg, FloorError(discount_pct))
    ELSE Accepted(neg, discount_pct)

\* make_offer counting the attempt before it is validated
make_offer_counting_first(neg, discount_pct) ==
    LET counted == [neg EXCEPT !.counter = @ + 1]
    IN  IF discount_pct > cfg.max_discount_pct
            THEN Failure(counted, CeilingError(discount_pct))
        ELSE IF neg.counter >= neg.max_counters
            THEN Failure(counted, CounterError(neg))
        ELSE IF 100 - discount_pct < cfg.floor_margin_pct
            THEN Failure(counted, FloorError(discount_pct))
        ELSE Accepted(neg, discount_pct)

\* make_offer checking the counter limit before the ceiling
make_offer_counter_first(neg, discount_pct) ==
    IF neg.counter >= neg.max_counters
        THEN Failure(neg, CounterError(neg))
    ELSE IF discount_pct > cfg.max_discount_pct
        THEN Failure(neg, CeilingError(discount_pct))
    ELSE IF 100 - discount_pct < cfg.floor_margin_pct
        THEN Failure(neg, FloorError(discount_pct))
    ELSE Accepted(neg, discount_pct)

\* make_offer refusing only once the counter is past max_counters
make_offer_one_more(neg, discount_pct) ==
    IF discount_pct > cfg.max_discount_pct
        THEN Failure(neg, CeilingError(discount_pct))
    ELSE IF neg.counter > neg.max_counters
        THEN Failure(neg, CounterError(neg))
    ELSE IF 100 - discount_pct < cfg.floor_margin_pct
        THEN Failure(neg, FloorError(discount_pct))
    ELSE Accepted(neg, discount_pct)

\* NegotiationState.make_offer: the state after the call and the returned dict
make_offer(neg, discount_pct) ==
    IF discount_pct > cfg.max_discount_pct
        THEN Failure(neg, CeilingError(discount_pct))
    ELSE IF neg.counter >= neg.max_counters
        THEN Failure(neg, CounterError(neg))
    ELSE IF 100 - discount_pct < cfg.floor_margin_pct
        THEN Failure(neg, FloorError(discount_pct))
    ELSE Accepted(neg, discount_pct)

\* get_next_offer without the first-offer branch
get_next_offer_stepping_first(neg, previous_discount) ==
    LET discount ==
            IF previous_discount /= None
                THEN previous_discount[1] + cfg.counter_step_pct
            ELSE neg.current_discount_pct + cfg.counter_step_pct
    IN  make_offer(neg, Min(discount, cfg.max_discount_pct))

\* NegotiationState.get_next_offer; previous_discount is None or Some(pct)
get_next_offer(neg, previous_discount) ==
    LET discount ==
            IF neg.counter = 0 THEN cfg.first_offer_pct
            ELSE IF previous_discount /= None
                THEN previous_discount[1] + cfg.counter_step_pct
            ELSE neg.current_discount_pct + cfg.counter_step_pct
    IN  make_offer(neg, Min(discount, cfg.max_discount_pct))

\* get_summary counting the remaining counters from the offers still to come
\* after the next one
get_summary_short_by_one(neg) ==
    [counter |-> neg.counter, max_counters |-> neg.max_counters,
     current_discount_pct |-> neg.current_discount_pct,
     remaining_counters |-> neg.max_counters - neg.counter - 1,
     can_continue |-> neg.counter < neg.max_counters,
     offers |-> neg.offers]

\* NegotiationState.get_summary
get_summary(neg) ==
    [counter |-> neg.counter, max_counters |-> neg.max_counters,
     current_discount_pct |-> neg.current_discount_pct,
     remaining_counters |-> neg.max_counters - neg.counter,
     can_continue |-> neg.counter < neg.max_counters,
     offers |-> neg.offers]

-----------------------------------------------------------------------------
(* pricing_service.py: PricingService *)

\* PricingService.get_negotiation: the dict after the lazy creation
get_negotiation(negs, session_id) ==
    IF session_id \in DOMAIN negs THEN negs
    ELSE negs @@ (session_id :> NewNegotiationState)

\* the trait bonus step without the clamp to max_discount_pct
apply_trait_bonus_unclamped(neg, result, trait_bonus_pct) ==
    LET base_discount == result.discount_pct
        final_discount == base_discount + trait_bonus_pct
        final_margin == 100 - final_discount
        n == Len(neg.offers)
    IN  IF final_discount > base_discount /\ final_margin >= cfg.floor_margin_pct
        THEN [neg |-> [neg EXCEPT
                        !.current_discount_pct = final_discount,
                        !.offers = [@ EXCEPT ![n].discount_pct = final_discount,
                                             ![n].margin_pct = final_margin]],
              result |-> result @@ [trait_bonus_applied |-> TRUE]]
        ELSE [neg |-> neg, result |-> result]

\* the trait bonus step without the second floor check
apply_trait_bonus_without_floor(neg, result, trait_bonus_pct) ==
    LET base_discount == result.discount_pct
        final_discount == Min(base_discount + trait_bonus_pct, cfg.max_discount_pct)
        final_margin == 100 - final_discount
        n == Len(neg.offers)
    IN  IF final_discount > base_discount
        THEN [neg |-> [neg EXCEPT
                        !.current_discount_pct = final_discount,
                        !.offers = [@ EXCEPT ![n].discount_pct = final_discount,
                                             ![n].margin_pct = final_margin]],
              result |-> result @@ [trait_bonus_applied |-> TRUE]]
        ELSE [neg |-> neg, result |-> result]

\* the trait bonus step counting the raised offer as one more counter
apply_trait_bonus_counting(neg, result, trait_bonus_pct) ==
    LET base_discount == result.discount_pct
        final_discount == Min(base_discount + trait_bonus_pct, cfg.max_discount_pct)
        final_margin == 100 - final_discount
        n == Len(neg.offers)
    IN  IF final_discount > base_discount /\ final_margin >= cfg.floor_margin_pct
        THEN [neg |-> [neg EXCEPT
                        !.counter = @ + 1,
                        !.current_discount_pct = final_discount,
                        !.offers = [@ EXCEPT ![n].discount_pct = final_discount,
                                             ![n].margin_pct = final_margin]],
              result |-> result @@ [trait_bonus_applied |-> TRUE]]
        ELSE [neg |-> neg, result |-> result]

\* the trait bonus step recording the raised offer as one more offer instead
\* of rewriting the last one
apply_trait_bonus_appending(neg, result, trait_bonus_pct) ==
    LET final_discount == Min(result.discount_pct + trait_bonus_pct, cfg.max_discount_pct)
    IN  IF final_discount > result.discount_pct
            /\ 100 - final_discount >= cfg.floor_margin_pct
        THEN [neg |-> [neg EXCEPT
                        !.current_discount_pct = final_discount,
                        !.offers = Append(@, [counter |-> neg.counter,
                                              discount_pct |-> final_discount,
                                              margin_pct |-> 100 - final_discount])],
              result |-> result]
        ELSE [neg |-> neg, result |-> result]

\* the trait bonus step overwriting the last offer but not current_discount_pct
apply_trait_bonus_leaving_current(neg, result, trait_bonus_pct) ==
    LET base_discount == result.discount_pct
        bonus_discount == base_discount + trait_bonus_pct
        final_discount == Min(bonus_discount, cfg.max_discount_pct)
        final_margin == 100 - final_discount
        n == Len(neg.offers)
    IN  IF final_discount > base_discount /\ final_margin >= cfg.floor_margin_pct
        THEN [neg |-> [neg EXCEPT
                        !.offers = IF n > 0
                                   THEN [neg.offers EXCEPT
                                           ![n].discount_pct = final_discount,
                                           ![n].margin_pct = final_margin]
                                   ELSE neg.offers],
              result |-> [k \in DOMAIN result \ {"discount_pct", "margin_pct"}
                              |-> result[k]]
                         @@ [discount_pct |-> final_discount,
                             margin_pct |-> final_margin,
                             trait_bonus_applied |-> TRUE,
                             base_discount_pct |-> base_discount,
                             trait_bonus_pct |-> trait_bonus_pct]]
        ELSE [neg |-> neg, result |-> result]

\* the trait bonus step of make_discount_offer, after a successful offer
apply_trait_bonus(neg, result, trait_bonus_pct) ==
    LET base_discount == result.discount_pct
        bonus_discount == base_discount + trait_bonus_pct
        final_discount == Min(bonus_discount, cfg.max_discount_pct)
        final_margin == 100 - final_discount
        n == Len(neg.offers)
    IN  IF final_discount > base_discount /\ final_margin >= cfg.floor_margin_pct
        THEN [neg |-> [neg EXCEPT
                        !.current_discount_pct = final_discount,
                        !.offers = IF n > 0
                                   THEN [neg.offers EXCEPT
                                           ![n].discount_pct = final_discount,
                                           ![n].margin_pct = final_margin]
                                   ELSE neg.offers],
              result |-> [k \in DOMAIN result \ {"discount_pct", "margin_pct"}
                              |-> result[k]]
                         @@ [discount_pct |-> final_discount,
                             margin_pct |-> final_margin,
                             trait_bonus_applied |-> TRUE,
                             base_discount_pct |-> base_discount,
                             trait_bonus_pct |-> trait_bonus_pct]]
        ELSE [neg |-> neg, result |-> result]

\* make_discount_offer stepping on from the first offer of the negotiation
make_discount_offer_from_first(negs, session_id, discount_pct, trait_bonus_pct) ==
    Let(get_negotiation(negs, session_id), LAMBDA created :
    Let(created[session_id], LAMBDA negotiation :
    Let(IF Len(negotiation.offers) > 0
        THEN Some(negotiation.offers[1].discount_pct) ELSE None,
        LAMBDA previous_discount :
    Let(IF discount_pct = None THEN get_next_offer(negotiation, previous_discount)
        ELSE make_offer(negotiation, discount_pct[1]),
        LAMBDA offered :
    Let(IF offered.result.success /\ trait_bonus_pct > 0
        THEN apply_trait_bonus(offered.neg, offered.result, trait_bonus_pct)
        ELSE offered,
        LAMBDA final :
    [negs |-> [created EXCEPT ![session_id] = final.neg], result |-> final.result])))))

\* PricingService.make_discount_offer; discount_pct is None or Some(pct).
\* The dict of negotiations after the call and the returned dict.
make_discount_offer(negs, session_id, discount_pct, trait_bonus_pct) ==
    Let(get_negotiation(negs, session_id), LAMBDA created :
    Let(created[session_id], LAMBDA negotiation :
    Let(IF Len(negotiation.offers) > 0
        THEN Some(negotiation.current_discount_pct) ELSE None,
        LAMBDA previous_discount :
    Let(IF discount_pct = None THEN get_next_offer(negotiation, previous_discount)
        ELSE make_offer(negotiation, discount_pct[1]),
        LAMBDA offered :
    Let(IF offered.result.success /\ trait_bonus_pct > 0
        THEN apply_trait_bonus(offered.neg, offered.result, trait_bonus_pct)
        ELSE offered,
        LAMBDA final :
    [negs |-> [created EXCEPT ![session_id] = final.neg], result |-> final.result])))))

-----------------------------------------------------------------------------
(* trait_detector.py: TraitDetector.  The catalog stands for the           *)
(* valuable_traits of the merchant configuration, in declaration order;    *)
(* its keyword counts and bonuses make every weighted bonus a whole number.*)

valuable_traits ==
    << [trait |-> "salon_owner", keywords |-> <<"salon", "stylist">>,
        discount_bonus_pct |-> 4],
       [trait |-> "influencer",
        keywords |-> <<"influencer", "followers", "instagram", "tiktok">>,
        discount_bonus_pct |-> 8] >>

\* the detections with the one at position i moved after every earlier one
\* of at least its confidence: list.sort(key=confidence, reverse=True)
RECURSIVE SortByConfidence(_)
SortByConfidence(detected) ==
    IF Len(detected) <= 1 THEN detected
    ELSE LET n == Len(detected)
             sorted == SortByConfidence(SubSeq(detected, 1, n - 1))
             x == detected[n]
             k == Cardinality({i \in 1..(n - 1) : sorted[i].confidence >= x.confidence})
         IN  SubSeq(sorted, 1, k) \o <<x>> \o SubSeq(sorted, k + 1, n - 1)

\* the detection of one catalog entry, or no detection
DetectOne(entry, text_lower) ==
    LET keywords == entry.keywords
        matches == Cardinality({i \in 1..Len(keywords) :
                                  Contains(text_lower, LowerSeq(Chars(keywords[i])))})
    IN  IF matches > 0
        THEN << [trait |-> entry.trait,
                 confidence |-> Min((matches * 200) \div Len(keywords), 100),
                 matches |-> matches] >>
        ELSE <<>>

RECURSIVE DetectAll(_, _)
DetectAll(entries, text_lower) ==
    IF Len(entries) = 0 THEN <<>>
    ELSE DetectOne(entries[1], text_lower) \o DetectAll(Tail(entries), text_lower)

\* TraitDetector.detect_traits
detect_traits(conversation_text) ==
    SortByConfidence(DetectAll(valuable_traits, LowerSeq(Chars(conversation_text))))

TraitNames(traits) == [i \in 1..Len(traits) |-> traits[i].trait]

\* the catalog's discount_bonus_pct of a trait (0 when absent)
BonusPct(trait_name) ==
    IF \E i \in 1..Len(valuable_traits) : valuable_traits[i].trait = trait_name
    THEN valuable_traits[CHOOSE i \in 1..Len(valuable_traits) :
                            valuable_traits[i].trait = trait_name].discount_bonus_pct
    ELSE 0

RECURSIVE TotalBonus(_)
TotalBonus(traits) ==
    IF Len(traits) = 0 THEN 0
    ELSE (BonusPct(traits[1].trait) * traits[1].confidence) \div 100
            + TotalBonus(Tail(traits))

\* get_discount_bonus without the cap
get_discount_bonus_uncapped(traits) ==
    IF Len(traits) = 0 THEN 0
    ELSE TotalBonus(traits)

\* TraitDetector.get_discount_bonus
get_discount_bonus(traits) ==
    IF Len(traits) = 0 THEN 0
    ELSE Min(TotalBonus(traits), cfg.max_trait_bonus_pct)

-----------------------------------------------------------------------------
(* agent_router.py: AgentRouter.  A pattern is matched as re.search does   *)
(* on a text without line breaks: (.+) is one or more characters.          *)

\* the positions where  lit(.+)  matches
After(t, lit) == {i \in Occurrences(t, Chars(lit)) : i + Len(lit) <= Len(t)}

\* (.+)lit(.+)  matches somewhere
Around(t, lit) ==
    \E i \in Occurrences(t, Chars(lit)) : i >= 2 /\ i + Len(lit) <= Len(t)

\* the positions where  pre(.+)sep(.+)  matches
Between(t, pre, sep) ==
    {i \in Occurrences(t, Chars(pre)) :
        \E j \in Occurrences(t, Chars(sep)) :
            j >= i + Len(pre) + 1 /\ j + Len(sep) <= Len(t)}

\* the positions where  pre(.+)suf  matches, and the greedy group (.+) of the
\* leftmost match
Before(t, pre, suf) ==
    {i \in Occurrences(t, Chars(pre)) :
        \E j \in Occurrences(t, Chars(suf)) : j >= i + Len(pre) + 1}

BeforeGroup(t, pre, suf) ==
    LET i == SetMin(Before(t, pre, suf))
        j == SetMax({k \in Occurrences(t, Chars(suf)) : k >= i + Len(pre) + 1})
    IN  Str(SubSeq(t, i + Len(pre), j - 1))

\* the group (.+) of the leftmost match of  lit(.+)
AfterGroup(t, lit) == Str(SubSeq(t, SetMin(After(t, lit)) + Len(lit), Len(t)))

\* i'm (a|an) (.+) at (.+) : the positions of the matches with each article
TitleA(t) == Between(t, "i'm a ", " at ")
TitleAn(t) == Between(t, "i'm an ", " at ")

\* group 1 of the leftmost match of  i'm (a|an) (.+) at (.+)
TitleArticle(t) ==
    IF TitleA(t) /= {} /\ SetMin(TitleA(t)) = SetMin(TitleA(t) \cup TitleAn(t))
    THEN "a" ELSE "an"

\* _extract_linkedin_info keeping the white space around the company
extract_linkedin_info_unstripped(message) ==
    LET t == LowerSeq(Chars(message))
        work_at == IF After(t, "i work at ") /= {}
                   THEN Some(AfterGroup(t, "i work at ")) ELSE None
        starts == TitleA(t) \cup TitleAn(t)
        i == SetMin(starts)
        pre == IF i \in TitleA(t) THEN "i'm a " ELSE "i'm an "
        \* (.+?) is lazy: it ends at the first " at " that leaves a company
        j == SetMin({k \in Occurrences(t, Chars(" at ")) :
                        k >= i + Len(pre) + 1 /\ k + 4 <= Len(t)})
    IN  IF starts /= {}
        THEN [name |-> None,
              company |-> Some(Strip(Str(SubSeq(t, j + 4, Len(t))))),
              title |-> Some(Strip(Str(SubSeq(t, i + Len(pre), j - 1))))]
        ELSE [name |-> None, company |-> work_at, title |-> None]

\* _extract_linkedin_info taking the company for the name as well
extract_linkedin_info_naming(message) ==
    LET t == LowerSeq(Chars(message))
        work_at == IF After(t, "i work at ") /= {}
                   THEN Some(Strip(AfterGroup(t, "i work at "))) ELSE None
        starts == TitleA(t) \cup TitleAn(t)
        i == SetMin(starts)
        pre == IF i \in TitleA(t) THEN "i'm a " ELSE "i'm an "
        \* (.+?) is lazy: it ends at the first " at " that leaves a company
        j == SetMin({k \in Occurrences(t, Chars(" at ")) :
                        k >= i + Len(pre) + 1 /\ k + 4 <= Len(t)})
    IN  IF starts /= {}
        THEN [name |-> None,
              company |-> Some(Strip(Str(SubSeq(t, j + 4, Len(t))))),
              title |-> Some(Strip(Str(SubSeq(t, i + Len(pre), j - 1))))]
        ELSE [name |-> work_at, company |-> work_at, title |-> None]

\* AgentRouter._extract_linkedin_info
extract_linkedin_info(message) ==
    LET t == LowerSeq(Chars(message))
        work_at == IF After(t, "i work at ") /= {}
                   THEN Some(Strip(AfterGroup(t, "i work at "))) ELSE None
        starts == TitleA(t) \cup TitleAn(t)
        i == SetMin(starts)
        pre == IF i \in TitleA(t) THEN "i'm a " ELSE "i'm an "
        \* (.+?) is lazy: it ends at the first " at " that leaves a company
        j == SetMin({k \in Occurrences(t, Chars(" at ")) :
                        k >= i + Len(pre) + 1 /\ k + 4 <= Len(t)})
    IN  IF starts /= {}
        THEN [name |-> None,
              company |-> Some(Strip(Str(SubSeq(t, j + 4, Len(t))))),
              title |-> Some(Strip(Str(SubSeq(t, i + Len(pre), j - 1))))]
        ELSE [name |-> None, company |-> work_at, title |-> None]

\* the first linkedin pattern that matches and its group 1, or None
LinkedinQuery(t) ==
    IF After(t, "i work at ") /= {} THEN Some(AfterGroup(t, "i work at "))
    ELSE IF After(t, "my company is ") /= {} THEN Some(AfterGroup(t, "my company is "))
    ELSE IF TitleA(t) \cup TitleAn(t) /= {} THEN Some(TitleArticle(t))
    ELSE IF Before(t, "look up ", " on linkedin") /= {}
        THEN Some(BeforeGroup(t, "look up ", " on linkedin"))
    ELSE IF Before(t, "find ", " on linkedin") /= {}
        THEN Some(BeforeGroup(t, "find ", " on linkedin"))
    ELSE None

\* some brave pattern matches
BraveMatch(t) ==
    \/ Around(t, " is ") \/ Around(t, " are ")
    \/ After(t, "according to ") /= {}
    \/ After(t, "i read ") /= {} \/ After(t, "i heard ") /= {} \/ After(t, "i saw ") /= {}
    \/ Around(t, " said ") \/ Around(t, " claims ") \/ Around(t, " stated ")

\* some general fact-check pattern matches
FactCheckMatch(t) ==
    \/ After(t, "i work at ") /= {} \/ After(t, "i am at ") /= {}
    \/ After(t, "i'm a ") /= {} \/ After(t, "i'm an ") /= {}
    \/ After(t, "my company is ") /= {}
    \/ \E v \in {" is a ", " is an ", " are a ", " are an "} : Around(t, v)
    \/ After(t, "according to ") /= {}
    \/ After(t, "i read ") /= {} \/ After(t, "i heard ") /= {} \/ After(t, "i saw ") /= {}
    \/ Around(t, " said ") \/ Around(t, " claims ") \/ Around(t, " stated ")
    \/ Around(t, " has ") \/ Around(t, " have ")

\* detect_fact_check_needed trying the brave patterns before the linkedin ones
detect_verification_first(user_message) ==
    LET message_lower == LowerSeq(Chars(user_message))
        linkedin == LinkedinQuery(message_lower)
    IN  IF BraveMatch(message_lower)
        THEN [needed |-> TRUE, agent_type |-> "brave", query |-> Some(user_message),
              confidence |-> 60, claim |-> user_message]
        ELSE IF linkedin /= None
        THEN [needed |-> TRUE, agent_type |-> "linkedin", query |-> linkedin,
              confidence |-> 70,
              extracted_info |-> extract_linkedin_info(user_message)]
        ELSE IF FactCheckMatch(message_lower)
        THEN [needed |-> TRUE, agent_type |-> "brave", query |-> Some(user_message),
              confidence |-> 50, claim |-> user_message]
        ELSE [needed |-> FALSE, agent_type |-> "None", query |-> None,
              confidence |-> 0]

\* detect_fact_check_needed with a fallback confidence below the consent threshold
detect_with_weak_fallback(user_message) ==
    LET message_lower == LowerSeq(Chars(user_message))
        linkedin == LinkedinQuery(message_lower)
    IN  IF linkedin /= None
        THEN [needed |-> TRUE, agent_type |-> "linkedin", query |-> linkedin,
              confidence |-> 70,
              extracted_info |-> extract_linkedin_info(user_message)]
        ELSE IF BraveMatch(message_lower)
        THEN [needed |-> TRUE, agent_type |-> "brave", query |-> Some(user_message),
              confidence |-> 60, claim |-> user_message]
        ELSE IF FactCheckMatch(message_lower)
        THEN [needed |-> TRUE, agent_type |-> "brave", query |-> Some(user_message),
              confidence |-> 40, claim |-> user_message]
        ELSE [needed |-> FALSE, agent_type |-> "None", query |-> None,
              confidence |-> 0]

\* AgentRouter.detect_fact_check_needed; a confidence is in hundredths
detect_fact_check_needed(user_message) ==
    LET message_lower == LowerSeq(Chars(user_message))
        linkedin == LinkedinQuery(message_lower)
    IN  IF linkedin /= None
        THEN [needed |-> TRUE, agent_type |-> "linkedin", query |-> linkedin,
              confidence |-> 70,
              extracted_info |-> extract_linkedin_info(user_message)]
        ELSE IF BraveMatch(message_lower)
        THEN [needed |-> TRUE, agent_type |-> "brave", query |-> Some(user_message),
              confidence |-> 60, claim |-> user_message]
        ELSE IF FactCheckMatch(message_lower)
        THEN [needed |-> TRUE, agent_type |-> "brave", query |-> Some(user_message),
              confidence |-> 50, claim |-> user_message]
        ELSE [needed |-> FALSE, agent_type |-> "None", query |-> None,
              confidence |-> 0]

\* should_ask_consent without the availability checks
should_ask_consent_assuming(detection_result) ==
    IF ~Get(detection_result, "needed", FALSE) THEN FALSE
    ELSE Get(detection_result, "confidence", 0) >= 50

\* AgentRouter.should_ask_consent
should_ask_consent(detection_result) ==
    IF ~Get(detection_result, "needed", FALSE) THEN FALSE
    ELSE IF detection_result.agent_type = "brave" /\ ~cfg.brave_agent THEN FALSE
    ELSE IF detection_result.agent_type = "linkedin" /\ ~cfg.linkedin_agent THEN FALSE
    ELSE Get(detection_result, "confidence", 0) >= 50

\* AgentRouter.execute_fact_check: the capability calls made and the result.
\* lookup is what the capability does when called: "found" or "failed"
\* (BraveAgent.search, LinkedInAgent.lookup_person and lookup_company turn
\* every exception into a result with success False and a summary).
\* (a capability whose exception is not caught: the call raises, None)
LookupResult_without_except(call, lookup, what) ==
    [calls |-> <<call>>,
     result |-> IF lookup = "found"
                THEN [success |-> TRUE, summary |-> "Result of " \o what]
                ELSE None]

LookupResult(call, lookup, what) ==
    [calls |-> <<call>>,
     result |-> IF lookup = "found"
                THEN [success |-> TRUE, summary |-> "Result of " \o what]
                ELSE [success |-> FALSE, error |-> "timeout",
                      summary |-> "Failed to " \o what \o ": timeout"]]

\* execute_fact_check looking a person up by the raw query whatever was extracted
execute_fact_check_by_query(agent_type, query, context, lookup) ==
    IF agent_type = "brave" /\ cfg.brave_agent
    THEN LookupResult([api |-> "brave.fact_check", claim |-> query], lookup, "search Brave")
    ELSE IF agent_type = "linkedin" /\ cfg.linkedin_agent
    THEN LookupResult([api |-> "linkedin.lookup_person", name |-> query,
                       company |-> None], lookup, "lookup LinkedIn profile")
    ELSE [calls |-> <<>>,
          result |-> [success |-> FALSE,
                      error |-> "Agent type '" \o agent_type
                                    \o "' not available or not configured",
                      agent_type |-> agent_type]]

execute_fact_check(agent_type, query, context, lookup) ==
    IF agent_type = "brave" /\ cfg.brave_agent
    THEN LookupResult([api |-> "brave.fact_check", claim |-> query], lookup, "search Brave")
    ELSE IF agent_type = "linkedin" /\ cfg.linkedin_agent
    THEN LET info == IF context /= None THEN context[1].extracted_info
                     ELSE [name |-> None, company |-> None, title |-> None]
         IN  IF info.company /= None /\ info.company /= Some("") /\ info.name /= None
                    /\ info.name /= Some("")
             THEN LookupResult([api |-> "linkedin.lookup_person", name |-> info.name,
                                company |-> info.company], lookup,
                               "lookup LinkedIn profile")
             ELSE IF info.company /= None /\ info.company /= Some("")
             THEN LookupResult([api |-> "linkedin.lookup_company",
                                company_name |-> info.company], lookup,
                               "lookup LinkedIn company")
             ELSE IF info.name /= None /\ info.name /= Some("")
             THEN LookupResult([api |-> "linkedin.lookup_person", name |-> info.name,
                                company |-> None], lookup, "lookup LinkedIn profile")
             ELSE LookupResult([api |-> "linkedin.lookup_person", name |-> query,
                                company |-> None], lookup, "lookup LinkedIn profile")
    ELSE [calls |-> <<>>,
          result |-> [success |-> FALSE,
                      error |-> "Agent type '" \o agent_type
                                    \o "' not available or not configured",
                      agent_type |-> agent_type]]

-----------------------------------------------------------------------------
(* discount_service.py: DiscountService *)

\* _create_simulated_discount reporting a bonus whenever a trait was detected
create_simulated_discount_flagging_traits(discount_pct, code, offer_result, detected_traits) ==
    [success |-> TRUE, discount_code |-> code, discount_pct |-> discount_pct,
     counter |-> offer_result.counter,
     remaining_counters |-> offer_result.remaining_counters,
     simulated |-> TRUE,
     detected_traits |-> detected_traits,
     trait_bonus_applied |-> detected_traits /= <<>>,
     base_discount_pct |-> Get(offer_result, "base_discount_pct", discount_pct)]

\* DiscountService._create_simulated_discount (code is None: a random code)
create_simulated_discount(discount_pct, code, offer_result, detected_traits) ==
    [success |-> TRUE, discount_code |-> code, discount_pct |-> discount_pct,
     counter |-> offer_result.counter,
     remaining_counters |-> offer_result.remaining_counters,
     simulated |-> TRUE,
     detected_traits |-> detected_traits,
     trait_bonus_applied |-> Get(offer_result, "trait_bonus_applied", FALSE),
     base_discount_pct |-> Get(offer_result, "base_discount_pct", discount_pct)]

\* DiscountService.create_negotiation_discount.  shopify is what
\* ShopifyClient.create_discount_code does when called ("created", "rejected"
\* or "raised") and code the code that is generated.  The negotiations and
\* the detector's detected_traits after the call, the external calls made and
\* the returned dict.
create_negotiation_discount(negs, ds_detected, session_id, discount_pct, conversation_text, shopify, code) ==
    Let(IF conversation_text /= "" THEN detect_traits(conversation_text) ELSE <<>>,
        LAMBDA traits :
    Let(IF Len(traits) > 0 THEN get_discount_bonus(traits) ELSE 0,
        LAMBDA trait_bonus_pct :
    Let(TraitNames(traits), LAMBDA detected_traits :
    Let(make_discount_offer(negs, session_id, discount_pct, trait_bonus_pct),
        LAMBDA offered :
    Let(offered.result, LAMBDA offer_result :
    Let([negs |-> offered.negs,
         ds_detected |-> IF conversation_text /= "" THEN detected_traits
                         ELSE ds_detected],
        LAMBDA out :
    Let([api |-> "shopify.create_discount_code",
         percentage |-> offer_result.discount_pct],
        LAMBDA call :
    IF ~offer_result.success
        THEN out @@ [calls |-> <<>>, result |-> offer_result]
    ELSE IF ~cfg.shopify_client
        THEN out @@ [calls |-> <<>>,
                     result |-> create_simulated_discount(
                         offer_result.discount_pct, code, offer_result,
                         detected_traits)]
    ELSE IF shopify = "created"
        THEN out @@ [calls |-> <<call>>,
                     result |-> [success |-> TRUE, discount_code |-> code,
                         discount_pct |-> offer_result.discount_pct,
                         counter |-> offer_result.counter,
                         remaining_counters |-> offer_result.remaining_counters,
                         detected_traits |-> detected_traits,
                         trait_bonus_applied |->
                             Get(offer_result, "trait_bonus_applied", FALSE),
                         base_discount_pct |->
                             Get(offer_result, "base_discount_pct",
                                 offer_result.discount_pct)]]
    ELSE IF shopify = "rejected"
        THEN out @@ [calls |-> <<call>>,
                     result |-> [success |-> FALSE, error |-> "Unknown error",
                                 discount_pct |-> offer_result.discount_pct]]
    ELSE out @@ [calls |-> <<call>>,
                 result |-> create_simulated_discount(
                     offer_result.discount_pct, code, offer_result,
                     detected_traits)])))))))

-----------------------------------------------------------------------------
(* bouncer.py: BouncerAgent *)

\* the persona prompt (config/prompts/bouncer_prompt.txt is not in the sources)
system_prompt == "You are The Bouncer."

Message(role, content) == [role |-> role, content |-> content]

\* BouncerAgent.__init__
NewBouncerAgent ==
    [conversation_history |-> <<Message("system", system_prompt)>>,
     pending_fact_check |-> None,
     last_discount_code |-> None,
     detected_traits |-> <<>>,       \* trait_detector.detected_traits
     ds_detected_traits |-> <<>>]    \* discount_service.trait_detector.detected_traits

negotiation_keywords ==
    <<"discount", "deal", "cheaper", "lower price", "reduce", "haggle",
      "negotiate", "offer", "promo", "coupon", "code", "save money",
      "too expensive", "price", "cost", "afford">>

\* BouncerAgent._detect_negotiation_intent
detect_negotiation_intent(user_message) ==
    IF LET message_lower == LowerSeq(Chars(user_message))
       IN  \E i \in 1..Len(negotiation_keywords) :
               Contains(message_lower, Chars(negotiation_keywords[i]))
    THEN [should_offer_discount |-> TRUE, intent |-> "negotiation"]
    ELSE [should_offer_discount |-> FALSE, intent |-> "general"]

IsConversational(msg) == msg.role \in {"user", "assistant"}

\* BouncerAgent._get_conversation_context
get_conversation_context(conversation_history) ==
    LET n == Len(conversation_history)
        recent == SelectSeq(SubSeq(conversation_history, IF n > 6 THEN n - 5 ELSE 1, n),
                            IsConversational)
    IN  Join(" ", [i \in 1..Len(recent) |-> recent[i].content])

\* BouncerAgent._is_consent_response
is_consent_response(agent, user_message) == agent.pending_fact_check /= None

affirmative == {"yes", "y", "yeah", "sure", "ok", "okay", "go ahead"}

decline_reply == "No problem, I won't look that up. How else can I help you?"

\* _handle_consent_response forgetting the discount code with the detection
handle_consent_response_clearing_code(agent, user_message, llm, lookup) ==
    IF agent.pending_fact_check = None
    THEN [agent |-> agent, calls |-> <<>>,
          returned |-> Some(<<"I don't have a pending fact-check request.", None>>)]
    ELSE IF Strip(Lower(user_message)) \in affirmative
    THEN Let(agent.pending_fact_check[1], LAMBDA detection :
         Let(detection.agent_type, LAMBDA agent_type :
         Let(Get(detection, "extracted_info", None), LAMBDA extracted :
         Let(IF extracted /= None THEN Some([extracted_info |-> extracted]) ELSE None,
             LAMBDA context :
         Let(execute_fact_check(agent_type, detection.query, context, lookup),
             LAMBDA checked :
         Let("[Fact-check result via " \o agent_type \o "]: "
                 \o Get(checked.result, "summary", "No results found"),
             LAMBDA summary :
         Let([agent EXCEPT !.conversation_history =
                  Append(@, Message("system", summary))],
             LAMBDA noted :
         Let(<<[api |-> "execute_fact_check", agent_type |-> agent_type,
                query |-> detection.query, context |-> context]>>
                 \o checked.calls \o <<[api |-> "llm"]>>,
             LAMBDA made :
         IF llm = None
         THEN [agent |-> noted, calls |-> made, returned |-> None]
         ELSE [agent |-> [noted EXCEPT
                            !.conversation_history =
                                Append(@, Message("assistant", llm[1])),
                            !.pending_fact_check = None,
                            !.last_discount_code = None],
               calls |-> made,
               returned |-> Some(<<llm[1], None>>)]))))))))
    ELSE [agent |-> [agent EXCEPT
                        !.conversation_history =
                            Append(@, Message("assistant", decline_reply)),
                        !.pending_fact_check = None],
          calls |-> <<>>,
          returned |-> Some(<<decline_reply, None>>)]

\* BouncerAgent._handle_consent_response.  llm is what the completion call
\* does: None when it raises, else Some(reply).  The agent after the call, the
\* external calls made and what is returned (None when the call raised).
handle_consent_response(agent, user_message, llm, lookup) ==
    IF agent.pending_fact_check = None
    THEN [agent |-> agent, calls |-> <<>>,
          returned |-> Some(<<"I don't have a pending fact-check request.", None>>)]
    ELSE IF Strip(Lower(user_message)) \in affirmative
    THEN Let(agent.pending_fact_check[1], LAMBDA detection :
         Let(detection.agent_type, LAMBDA agent_type :
         Let(Get(detection, "extracted_info", None), LAMBDA extracted :
         Let(IF extracted /= None THEN Some([extracted_info |-> extracted]) ELSE None,
             LAMBDA context :
         Let(execute_fact_check(agent_type, detection.query, context, lookup),
             LAMBDA checked :
         Let("[Fact-check result via " \o agent_type \o "]: "
                 \o Get(checked.result, "summary", "No results found"),
             LAMBDA summary :
         Let([agent EXCEPT !.conversation_history =
                  Append(@, Message("system", summary))],
             LAMBDA noted :
         Let(<<[api |-> "execute_fact_check", agent_type |-> agent_type,
                query |-> detection.query, context |-> context]>>
                 \o checked.calls \o <<[api |-> "llm"]>>,
             LAMBDA made :
         IF llm = None
         THEN [agent |-> noted, calls |-> made, returned |-> None]
         ELSE [agent |-> [noted EXCEPT
                            !.conversation_history =
                                Append(@, Message("assistant", llm[1])),
                            !.pending_fact_check = None],
               calls |-> made,
               returned |-> Some(<<llm[1], None>>)]))))))))
    ELSE [agent |-> [agent EXCEPT
                        !.conversation_history =
                            Append(@, Message("assistant", decline_reply)),
                        !.pending_fact_check = None],
          calls |-> <<>>,
          returned |-> Some(<<decline_reply, None>>)]

\* the system note of a successful discount offer
discount_context(discount_info) ==
    LET names == discount_info.detected_traits
        trait_names == Join(", ", names)
        trait_note ==
            IF Len(names) = 0 THEN ""
            ELSE IF discount_info.trait_bonus_applied
            THEN " They claim to be " \o Char(trait_names, 1) \o ". Fine, I'll give them "
                    \o ToString(discount_info.discount_pct) \o "% instead of "
                    \o ToString(discount_info.base_discount_pct) \o "%."
            ELSE " They claim to be " \o Char(trait_names, 1) \o ". I'm skeptical."
    IN  "[Discount Available]: Code '" \o discount_info.discount_code \o "' - "
            \o ToString(discount_info.discount_pct) \o "% off. Expires in 10 min. Counter: "
            \o ToString(discount_info.counter) \o "/3." \o trait_note

probe_context ==
    "[No Discount Yet]: Customer asked for discount but hasn't provided valuable traits. "
    \o "Probe them: 'What makes you special? Are you a beauty influencer? Salon owner? "
    \o "Distributor? Otherwise, prices are what they are.'"

\* the consent prompt worded for Brave whatever the agent type
consent_prompt_brave_only(detection) ==
    IF detection.agent_type \in {"brave", "linkedin"}
        THEN Some("Can I verify that on Brave search? (yes/no)")
    ELSE None

\* the consent prompt of a detection
consent_prompt(detection) ==
    IF detection.agent_type = "brave"
        THEN Some("Can I verify that on Brave search? (yes/no)")
    ELSE IF detection.agent_type = "linkedin"
        THEN Some("Can I look that up on LinkedIn? (yes/no)")
    ELSE None

\* the normal path offering a discount on negotiation intent alone
chat_pipeline_offering_on_intent(agent, negs, session_id, user_message, llm, shopify, code) ==
    Let(detect_negotiation_intent(user_message), LAMBDA negotiation_context :
    Let(Append(agent.conversation_history, Message("user", user_message)),
        LAMBDA history1 :
    Let(detect_fact_check_needed(user_message), LAMBDA detection :
    Let(get_conversation_context(history1), LAMBDA conversation_text :
    Let(detect_traits(conversation_text), LAMBDA detected_traits :
    Let(negotiation_context.should_offer_discount,
        LAMBDA should_offer :
    Let(IF should_offer
        THEN create_negotiation_discount(negs, agent.ds_detected_traits, session_id,
                                         None, conversation_text, shopify, code)
        ELSE [negs |-> negs, ds_detected |-> agent.ds_detected_traits,
              calls |-> <<>>, result |-> [success |-> FALSE]],
        LAMBDA created :
    Let(created.result, LAMBDA discount_info :
    Let(IF should_offer /\ discount_info.success
            THEN Append(history1, Message("system", discount_context(discount_info)))
        ELSE IF ~should_offer /\ negotiation_context.should_offer_discount
            THEN Append(history1, Message("system", probe_context))
        ELSE history1,
        LAMBDA history2 :
    Let([agent EXCEPT
            !.conversation_history = history2,
            !.detected_traits = TraitNames(detected_traits),
            !.ds_detected_traits = created.ds_detected,
            !.last_discount_code =
                IF should_offer /\ discount_info.success
                THEN Some(discount_info.discount_code) ELSE @],
        LAMBDA before_llm :
    Let(created.calls \o <<[api |-> "llm"]>>, LAMBDA made :
    Let(detection.needed /\ should_ask_consent(detection), LAMBDA ask :
    IF llm = None
    THEN [agent |-> before_llm, negs |-> created.negs, calls |-> made,
          returned |-> None]
    ELSE [agent |-> [before_llm EXCEPT
                        !.pending_fact_check = IF ask THEN Some(detection) ELSE @,
                        !.conversation_history =
                            Append(@, Message("assistant", llm[1]))],
          negs |-> created.negs,
          calls |-> made,
          returned |-> Some(<<llm[1], IF ask THEN consent_prompt(detection)
                                      ELSE None>>)]))))))))))))

\* BouncerAgent.chat on the normal path (no consent is pending)
chat_pipeline(agent, negs, session_id, user_message, llm, shopify, code) ==
    Let(detect_negotiation_intent(user_message), LAMBDA negotiation_context :
    Let(Append(agent.conversation_history, Message("user", user_message)),
        LAMBDA history1 :
    Let(detect_fact_check_needed(user_message), LAMBDA detection :
    Let(get_conversation_context(history1), LAMBDA conversation_text :
    Let(detect_traits(conversation_text), LAMBDA detected_traits :
    Let(negotiation_context.should_offer_discount /\ Len(detected_traits) > 0,
        LAMBDA should_offer :
    Let(IF should_offer
        THEN create_negotiation_discount(negs, agent.ds_detected_traits, session_id,
                                         None, conversation_text, shopify, code)
        ELSE [negs |-> negs, ds_detected |-> agent.ds_detected_traits,
              calls |-> <<>>, result |-> [success |-> FALSE]],
        LAMBDA created :
    Let(created.result, LAMBDA discount_info :
    Let(IF should_offer /\ discount_info.success
            THEN Append(history1, Message("system", discount_context(discount_info)))
        ELSE IF ~should_offer /\ negotiation_context.should_offer_discount
            THEN Append(history1, Message("system", probe_context))
        ELSE history1,
        LAMBDA history2 :
    Let([agent EXCEPT
            !.conversation_history = history2,
            !.detected_traits = TraitNames(detected_traits),
            !.ds_detected_traits = created.ds_detected,
            !.last_discount_code =
                IF should_offer /\ discount_info.success
                THEN Some(discount_info.discount_code) ELSE @],
        LAMBDA before_llm :
    Let(created.calls \o <<[api |-> "llm"]>>, LAMBDA made :
    Let(detection.needed /\ should_ask_consent(detection), LAMBDA ask :
    IF llm = None
    THEN [agent |-> before_llm, negs |-> created.negs, calls |-> made,
          returned |-> None]
    ELSE [agent |-> [before_llm EXCEPT
                        !.pending_fact_check = IF ask THEN Some(detection) ELSE @,
                        !.conversation_history =
                            Append(@, Message("assistant", llm[1]))],
          negs |-> created.negs,
          calls |-> made,
          returned |-> Some(<<llm[1], IF ask THEN consent_prompt(detection)
                                      ELSE None>>)]))))))))))))

\* chat without the consent check of its first lines
chat_without_gate(agent, negs, session_id, user_message, llm, shopify, code, lookup) ==
    chat_pipeline(agent, negs, session_id, user_message, llm, shopify, code)

\* chat treating anything but an affirmative answer as a normal message
chat_falling_through(agent, negs, session_id, user_message, llm, shopify, code, lookup) ==
    IF agent.pending_fact_check = None
    THEN chat_pipeline(agent, negs, session_id, user_message, llm, shopify, code)
    ELSE IF Strip(Lower(user_message)) \in affirmative
    THEN handle_consent_response(agent, user_message, llm, lookup) @@ [negs |-> negs]
    ELSE chat_pipeline([agent EXCEPT !.pending_fact_check = None], negs, session_id,
                       user_message, llm, shopify, code)

\* BouncerAgent.chat
chat(agent, negs, session_id, user_message, llm, shopify, code, lookup) ==
    IF agent.pending_fact_check /= None /\ is_consent_response(agent, user_message)
    THEN handle_consent_response(agent, user_message, llm, lookup) @@ [negs |-> negs]
    ELSE chat_pipeline(agent, negs, session_id, user_message, llm, shopify, code)

-----------------------------------------------------------------------------
(* bouncer_api.py *)

\* get_or_create_session replacing every session when it creates one
get_or_create_session_afresh(all, session_id) ==
    IF session_id \in DOMAIN all THEN all
    ELSE [s \in DOMAIN all \cup {session_id} |-> NewBouncerAgent]

\* get_or_create_session: the sessions after the call
get_or_create_session(all, session_id) ==
    IF session_id \in DOMAIN all THEN all ELSE all @@ (session_id :> NewBouncerAgent)

-----------------------------------------------------------------------------
(* The inputs explored *)

SessionIds == {"s1"}

Messages ==
    { "Yes", "no",
      "I work at a salon, any discount?",
      "Bob said the price is high" }

\* what the completion call does: it raises (None) or returns a reply
Replies == {"Prices are what they are."}
LlmOutcomes == {None} \cup {Some(r) : r \in Replies}

ShopifyOutcomes == {"created", "rejected", "raised"}
Codes == {"AAAA1111", "BBBB2222"}
FirstCode == CHOOSE c \in Codes : TRUE
LookupOutcomes == {"found", "failed"}

\* a session takes no further message once its history has this many entries
MaxHistory == 5

\* the discounts and bonuses passed to the pricing service directly
Discounts == {-5, 8, 18, 20, 21}
Bonuses == {-2, 0, 3, 10}

-----------------------------------------------------------------------------
(* The steps *)

Init ==
    /\ cfg \in Configs
    /\ sessions = <<>>
    /\ negotiations = <<>>
    /\ request = [op |-> "none"]
    /\ response = [op |-> "none"]
    /\ calls = <<>>
    /\ inflight = [requests |-> <<>>, agents |-> <<>>, registered |-> <<>>]

\* bouncer_api.chat: POST /api/chat with a session_id
Turn(session_id, raw, llm, shopify, code, lookup) ==
    /\ request' = [op |-> "chat", session_id |-> session_id, message |-> raw]
    /\ UNCHANGED <<inflight, cfg>>
    /\ \E message \in {Strip(raw)} :
        IF message = ""
        THEN /\ response' = [status |-> 400, body |-> [error |-> "Message is required"]]
             /\ calls' = <<>>
             /\ UNCHANGED <<sessions, negotiations>>
        ELSE \E all \in {get_or_create_session(sessions, session_id)} :
             \E done \in {chat(all[session_id], negotiations, session_id, message,
                               llm, shopify, code, lookup)} :
                /\ sessions' = [all EXCEPT ![session_id] = done.agent]
                /\ negotiations' = done.negs
                /\ calls' = done.calls
                /\ response' =
                    IF done.returned = None
                    THEN [status |-> 500, body |-> [error |-> "completion failed"]]
                    ELSE LET body == [response |-> done.returned[1][1],
                                      session_id |-> session_id,
                                      consent_request |-> done.returned[1][2]]
                             issued == done.agent.last_discount_code
                         IN  [status |-> 200,
                              body |-> IF issued /= None /\ issued /= Some("")
                                       THEN body @@ [discount_code |-> issued[1]]
                                       ELSE body]

\* a turn of a session whose history is below the bound
ApiChat(session_id, raw, llm, shopify, code, lookup) ==
    /\ session_id \in DOMAIN sessions
        => Len(sessions[session_id].conversation_history) < MaxHistory
    /\ Turn(session_id, raw, llm, shopify, code, lookup)

\* NegotiationState.make_offer on the negotiation of a session
MakeOffer(session_id, discount_pct) ==
    \E negs \in {get_negotiation(negotiations, session_id)} :
    \E made \in {make_offer(negs[session_id], discount_pct)} :
        /\ negotiations' = [negs EXCEPT ![session_id] = made.neg]
        /\ request' = [op |-> "make_offer", session_id |-> session_id,
                       discount_pct |-> discount_pct]
        /\ response' = made.result
        /\ calls' = <<>>
        /\ UNCHANGED <<inflight, cfg, sessions>>

\* NegotiationState.get_next_offer on the negotiation of a session
GetNextOffer(session_id, previous_discount) ==
    \E negs \in {get_negotiation(negotiations, session_id)} :
    \E made \in {get_next_offer(negs[session_id], previous_discount)} :
        /\ negotiations' = [negs EXCEPT ![session_id] = made.neg]
        /\ request' = [op |-> "get_next_offer", session_id |-> session_id,
                       previous_discount |-> previous_discount]
        /\ response' = made.result
        /\ calls' = <<>>
        /\ UNCHANGED <<inflight, cfg, sessions>>

\* PricingService.make_discount_offer
MakeDiscountOffer(session_id, discount_pct, trait_bonus_pct) ==
    \E made \in {make_discount_offer(negotiations, session_id, discount_pct,
                                     trait_bonus_pct)} :
        /\ negotiations' = made.negs
        /\ request' = [op |-> "make_discount_offer", session_id |-> session_id,
                       discount_pct |-> discount_pct,
                       trait_bonus_pct |-> trait_bonus_pct]
        /\ response' = made.result
        /\ calls' = <<>>
        /\ UNCHANGED <<inflight, cfg, sessions>>

\* PricingService.get_negotiation_summary
GetNegotiationSummary(session_id) ==
    \E negs \in {get_negotiation(negotiations, session_id)} :
        /\ negotiations' = negs
        /\ request' = [op |-> "get_negotiation_summary", session_id |-> session_id]
        /\ response' = get_summary(negs[session_id])
        /\ calls' = <<>>
        /\ UNCHANGED <<inflight, cfg, sessions>>

\* The outcomes of the collaborators that a turn can meet: the lookup is
\* called only when a detection is pending, the shop only when the message
\* has a negotiation keyword.
LookupChoices(session_id) ==
    IF session_id \in DOMAIN sessions /\ sessions[session_id].pending_fact_check /= None
    THEN LookupOutcomes ELSE {"found"}

ShopChoices(session_id, raw) ==
    IF /\ detect_negotiation_intent(raw).should_offer_discount
       /\ LookupChoices(session_id) = {"found"}
    THEN IF cfg.shopify_client
         THEN (ShopifyOutcomes \X Codes) \ {<<"rejected", c>> : c \in Codes \ {FirstCode}}
         ELSE {"raised"} \X Codes
    ELSE {<<"raised", FirstCode>>}

\* The chat endpoint
Next ==
    \E session_id \in SessionIds, raw \in Messages, llm \in LlmOutcomes :
        \E lookup \in LookupChoices(session_id), shop \in ShopChoices(session_id, raw) :
            ApiChat(session_id, raw, llm, shop[1], shop[2], lookup)

Spec == Init /\ [][Next]_vars

\* The pricing service, called directly
EngineNext ==
    \/ \E session_id \in SessionIds, d \in Discounts : MakeOffer(session_id, d)
    \/ \E session_id \in SessionIds, p \in {None} \cup {Some(d) : d \in Discounts} :
            GetNextOffer(session_id, p)
    \/ \E session_id \in SessionIds, d \in {None} \cup {Some(x) : x \in Discounts},
          b \in Bonuses :
            MakeDiscountOffer(session_id, d, b)
    \/ \E session_id \in SessionIds : GetNegotiationSummary(session_id)

SpecEngine == Init /\ [][EngineNext]_vars

\* The messages, detections and dispatch arguments given to the router directly
RouterMessages ==
    { "my company is Acme", "I work at Acme", "I'm a stylist at Acme",
      "look up Bob on linkedin",
      "according to Bob", "Bob said the price is high", "I heard rumors",
      "The sky is blue", "Prices are high",
      "I am at home", "I'm a student", "Bob has a dog",
      "I work at Acme Corp", "i WORK at  Acme Corp ", "Well, I work at Acme",
      "hello there", "Yes" }

AgentTypes == {"brave", "linkedin", "twitter", "None"}

Confidences == {0, 49, 50, 70}

Detections ==
    {detect_fact_check_needed(m) : m \in RouterMessages}
        \cup [needed : BOOLEAN, agent_type : AgentTypes, confidence : Confidences]
        \cup [needed : {TRUE}, agent_type : AgentTypes]

Queries == {Some("Acme"), Some("The sky is blue")}

ExtractedInfos ==
    [name : {None, Some("bob")}, company : {None, Some("acme")}, title : {None}]

Contexts == {None} \cup {Some([extracted_info |-> info]) : info \in ExtractedInfos}

\* AgentRouter.detect_fact_check_needed, called directly
Detect(message) ==
    /\ request' = [op |-> "detect_fact_check_needed", message |-> message]
    /\ response' = detect_fact_check_needed(message)
    /\ calls' = <<>>
    /\ UNCHANGED <<inflight, cfg, sessions, negotiations>>

\* AgentRouter.should_ask_consent, called directly
ShouldAskConsent(detection) ==
    /\ request' = [op |-> "should_ask_consent", detection |-> detection]
    /\ response' = [value |-> should_ask_consent(detection)]
    /\ calls' = <<>>
    /\ UNCHANGED <<inflight, cfg, sessions, negotiations>>

\* AgentRouter.execute_fact_check, called directly; the response is None
\* when the call raises
ExecuteFactCheck(agent_type, query, context, lookup) ==
    /\ request' = [op |-> "execute_fact_check", agent_type |-> agent_type,
                   query |-> query, context |-> context, lookup |-> lookup]
    /\ \E checked \in {execute_fact_check(agent_type, query, context, lookup)} :
        /\ response' = checked.result
        /\ calls' = checked.calls
    /\ UNCHANGED <<inflight, cfg, sessions, negotiations>>

\* The router, called directly
RouterNext ==
    \/ \E message \in RouterMessages : Detect(message)
    \/ \E detection \in Detections : ShouldAskConsent(detection)
    \/ \E agent_type \in AgentTypes, query \in Queries, context \in Contexts,
          lookup \in LookupOutcomes :
            ExecuteFactCheck(agent_type, query, context, lookup)

SpecRouter == Init /\ [][RouterNext]_vars

\* The texts and detection lists given to the trait detector directly
TraitTexts ==
    { "", "hello there", "I own a salon", "I am a stylist at a salon",
      "I am an influencer", "influencer with followers on tiktok",
      "a salon owner and influencer", "stylist, 10k followers on Instagram" }

Detection(trait, confidence) == [trait |-> trait, confidence |-> confidence, matches |-> 1]

TraitLists ==
    {detect_traits(text) : text \in TraitTexts}
        \cup { <<Detection("distributor", 100)>>,
               <<Detection("influencer", 100), Detection("influencer", 50)>>,
               <<Detection("salon_owner", 100), Detection("salon_owner", 100),
                 Detection("salon_owner", 100)>> }

\* TraitDetector.detect_traits on the detector of a session's agent
DetectTraits(session_id, conversation_text) ==
    \E all \in {get_or_create_session(sessions, session_id)} :
    \E detected \in {detect_traits(conversation_text)} :
        /\ sessions' = [all EXCEPT ![session_id].detected_traits = TraitNames(detected)]
        /\ request' = [op |-> "detect_traits", session_id |-> session_id,
                       conversation_text |-> conversation_text]
        /\ response' = [value |-> detected]
        /\ calls' = <<>>
        /\ UNCHANGED <<inflight, cfg, negotiations>>

\* TraitDetector.get_discount_bonus on the detector of a session's agent
GetDiscountBonus(session_id, traits) ==
    /\ sessions' = get_or_create_session(sessions, session_id)
    /\ request' = [op |-> "get_discount_bonus", session_id |-> session_id,
                   traits |-> traits]
    /\ response' = [value |-> get_discount_bonus(traits)]
    /\ calls' = <<>>
    /\ UNCHANGED <<inflight, cfg, negotiations>>

\* TraitDetector.has_valuable_trait on the detector of a session's agent
HasValuableTrait(session_id) ==
    \E all \in {get_or_create_session(sessions, session_id)} :
        /\ sessions' = all
        /\ request' = [op |-> "has_valuable_trait", session_id |-> session_id]
        /\ response' = [value |-> Len(all[session_id].detected_traits) > 0]
        /\ calls' = <<>>
        /\ UNCHANGED <<inflight, cfg, negotiations>>

\* The trait detector, called directly
TraitsNext ==
    \/ \E session_id \in SessionIds, text \in TraitTexts : DetectTraits(session_id, text)
    \/ \E session_id \in SessionIds, traits \in TraitLists :
            GetDiscountBonus(session_id, traits)
    \/ \E session_id \in SessionIds : HasValuableTrait(session_id)

SpecTraits == Init /\ [][TraitsNext]_vars

\* The arguments given to the discount service directly
ServiceDiscounts == {None, Some(8), Some(21)}
ServiceTexts == {"", "I own a salon"}

\* DiscountService.create_negotiation_discount on the service of a session's
\* agent
CreateNegotiationDiscount(session_id, discount_pct, conversation_text, shopify, code) ==
    \* without a shop client nothing is asked of the shop
    /\ ~cfg.shopify_client => shopify = "raised"
    /\ \E all \in {get_or_create_session(sessions, session_id)} :
       \E created \in {create_negotiation_discount(negotiations,
                        all[session_id].ds_detected_traits, session_id, discount_pct,
                        conversation_text, shopify, code)} :
        /\ sessions' = [all EXCEPT ![session_id].ds_detected_traits = created.ds_detected]
        /\ negotiations' = created.negs
        /\ request' = [op |-> "create_negotiation_discount", session_id |-> session_id,
                       discount_pct |-> discount_pct,
                       conversation_text |-> conversation_text, shopify |-> shopify]
        /\ response' = created.result
        /\ calls' = created.calls
        /\ UNCHANGED <<inflight, cfg>>

\* DiscountService.get_negotiation_info on the service of a session's agent
GetNegotiationInfo(session_id) ==
    \E negs \in {get_negotiation(negotiations, session_id)} :
        /\ sessions' = get_or_create_session(sessions, session_id)
        /\ negotiations' = negs
        /\ request' = [op |-> "get_negotiation_info", session_id |-> session_id]
        /\ response' = get_summary(negs[session_id])
        /\ calls' = <<>>
        /\ UNCHANGED <<inflight, cfg>>

\* The discount service, called directly
DiscountNext ==
    \/ \E session_id \in SessionIds, d \in ServiceDiscounts, text \in ServiceTexts,
          shopify \in ShopifyOutcomes, code \in {FirstCode} :
            CreateNegotiationDiscount(session_id, d, text, shopify, code)
    \/ \E session_id \in SessionIds : GetNegotiationInfo(session_id)

SpecDiscount == Init /\ [][DiscountNext]_vars

\* Two sessions taking turns in any order
SessionPair == {"s1", "s2"}
PairMessages == {"I work at a salon, any discount?", "Yes"}

\* a session of the pair takes no further message once its history has this
\* many entries
MaxPairHistory == 4

PairChat(session_id, raw, llm, lookup) ==
    /\ session_id \in DOMAIN sessions
        => Len(sessions[session_id].conversation_history) < MaxPairHistory
    /\ Turn(session_id, raw, llm, "created", IF session_id = "s1" THEN "AAAA1111" ELSE "BBBB2222", lookup)

PairNext ==
    \E session_id \in SessionPair, raw \in PairMessages, llm \in LlmOutcomes,
       lookup \in {"found"} :
        PairChat(session_id, raw, llm, lookup)

SpecPair == Init /\ [][PairNext]_vars

\* One session with a long history
LongMessages == {"I work at a salon, any discount?", "Bob said the price is high"}

\* the session takes no further message once its history has this many
\* entries
MaxLongHistory == 8

LongChat(session_id, raw, llm) ==
    /\ session_id \in DOMAIN sessions
        => Len(sessions[session_id].conversation_history) < MaxLongHistory
    /\ Turn(session_id, raw, llm, "created", FirstCode, "found")

LongNext ==
    \E session_id \in SessionIds, raw \in LongMessages, llm \in LlmOutcomes :
        LongChat(session_id, raw, llm)

SpecLong == Init /\ [][LongNext]_vars

\* One session answering the consent prompts of directory lookups
ConsentMessages ==
    { "my company is Acme", "I work at Acme Corp", "I'm a stylist at Acme",
      "look up Bob on linkedin", "Yes" }

\* the session takes no further message once its history has this many
\* entries
MaxConsentHistory == 4

ConsentChat(session_id, raw, llm, lookup) ==
    /\ session_id \in DOMAIN sessions
        => Len(sessions[session_id].conversation_history) < MaxConsentHistory
    /\ Turn(session_id, raw, llm, "created", FirstCode, lookup)

ConsentNext ==
    \E session_id \in SessionIds, raw \in ConsentMessages, llm \in LlmOutcomes,
       lookup \in LookupOutcomes :
        ConsentChat(session_id, raw, llm, lookup)

SpecConsent == Init /\ [][ConsentNext]_vars

\* One session haggling on past the last counter offer
HaggleMessages == {"I work at a salon, any discount?"}

\* the session takes no further message once its history has this many
\* entries
MaxHaggleHistory == 11

HaggleChat(session_id, raw, llm, code) ==
    /\ session_id \in DOMAIN sessions
        => Len(sessions[session_id].conversation_history) < MaxHaggleHistory
    /\ Turn(session_id, raw, llm, "created", code, "found")

HaggleNext ==
    \E session_id \in SessionIds, raw \in HaggleMessages, llm \in LlmOutcomes,
       code \in Codes :
        HaggleChat(session_id, raw, llm, code)

SpecHaggle == Init /\ [][HaggleNext]_vars

\* Requests served concurrently, each step one statement of bouncer_api.chat
\* and get_or_create_session
Requests == {"r1", "r2"}
RegistryMessages == {"hello there", "Bob said the price is high"}

\* the sessions dict: the state of the object registered for each session_id
Registry(agents, registered) == [s \in DOMAIN registered |-> agents[registered[s]]]

\* the fields of inflight with the request r at position pc holding agent
At(r, pc, agent) ==
    [inflight.requests EXCEPT ![r] = [@ EXCEPT !.pc = pc, !.agent = agent]]

\* chat, lines 43-50: a request arrives with its message and session_id
Arrive(r, session_id, message) ==
    /\ r \notin DOMAIN inflight.requests
    /\ inflight' = [inflight EXCEPT
            !.requests = @ @@ (r :> [pc |-> "check", session_id |-> session_id,
                                     message |-> message, agent |-> 0])]
    /\ UNCHANGED <<cfg, sessions, negotiations, request, response, calls>>

\* get_or_create_session, line 19: if session_id not in sessions
CheckRegistered(r) ==
    /\ r \in DOMAIN inflight.requests /\ inflight.requests[r].pc = "check"
    /\ inflight' = [inflight EXCEPT
            !.requests = At(r, IF inflight.requests[r].session_id
                                    \in DOMAIN inflight.registered
                               THEN "return" ELSE "create", 0)]
    /\ UNCHANGED <<cfg, sessions, negotiations, request, response, calls>>

\* get_or_create_session, line 20: sessions[session_id] = BouncerAgent(...)
CreateSession(r) ==
    /\ r \in DOMAIN inflight.requests /\ inflight.requests[r].pc = "create"
    /\ \E agents \in {Append(inflight.agents, NewBouncerAgent)} :
       \E registered \in {[s \in DOMAIN inflight.registered
                                \cup {inflight.requests[r].session_id} |->
                            IF s = inflight.requests[r].session_id THEN Len(agents)
                            ELSE inflight.registered[s]]} :
        /\ inflight' = [requests |-> At(r, "return", 0), agents |-> agents,
                        registered |-> registered]
        /\ sessions' = Registry(agents, registered)
    /\ UNCHANGED <<cfg, negotiations, request, response, calls>>

\* get_or_create_session, line 21: return sessions[session_id]
ReturnSession(r) ==
    /\ r \in DOMAIN inflight.requests /\ inflight.requests[r].pc = "return"
    /\ inflight' = [inflight EXCEPT
            !.requests = At(r, "chat",
                            inflight.registered[inflight.requests[r].session_id])]
    /\ UNCHANGED <<cfg, sessions, negotiations, request, response, calls>>

\* chat, lines 54-67: agent.chat(message) on the object the request holds
ServeChat(r, llm) ==
    /\ r \in DOMAIN inflight.requests /\ inflight.requests[r].pc = "chat"
    /\ \E req \in {inflight.requests[r]} :
       \E done \in {chat(inflight.agents[req.agent], negotiations, req.session_id,
                         req.message, llm, "raised", FirstCode, "found")} :
       \E agents \in {[inflight.agents EXCEPT ![req.agent] = done.agent]} :
        /\ inflight' = [inflight EXCEPT !.requests = At(r, "done", req.agent),
                                        !.agents = agents]
        /\ sessions' = Registry(agents, inflight.registered)
        /\ negotiations' = done.negs
        /\ request' = [op |-> "chat", session_id |-> req.session_id,
                       message |-> req.message, request |-> r]
        /\ calls' = done.calls
        /\ response' =
            IF done.returned = None
            THEN [status |-> 500, body |-> [error |-> "completion failed"]]
            ELSE [status |-> 200,
                  body |-> [response |-> done.returned[1][1],
                            session_id |-> req.session_id,
                            consent_request |-> done.returned[1][2]]]
    /\ UNCHANGED cfg

\* The chat endpoint serving two requests at once
RegistryNext ==
    \/ \E r \in Requests, session_id \in SessionIds, message \in RegistryMessages :
            Arrive(r, session_id, message)
    \/ \E r \in Requests : CheckRegistered(r)
    \/ \E r \in Requests : CreateSession(r)
    \/ \E r \in Requests : ReturnSession(r)
    \/ \E r \in Requests, llm \in LlmOutcomes : ServeChat(r, llm)

SpecRegistry == Init /\ [][RegistryNext]_vars

-----------------------------------------------------------------------------
(* The consent gate (Spec) *)

\* the detection a session holds, None without one (or without the session)
pending(all, session_id) ==
    IF session_id \in DOMAIN all THEN all[session_id].pending_fact_check ELSE None

\* the calls of AgentRouter.execute_fact_check among the calls of a turn
Dispatches(made) == {i \in 1..Len(made) : made[i].api = "execute_fact_check"}

\* the entries of a history with a role
WithRole(history, role) == {i \in 1..Len(history) : history[i].role = role}

\* the notes of a fact-check result in the history of a session
FactCheckNotes(history) ==
    {i \in WithRole(history, "system") :
        Len(history[i].content) >= 18
            /\ SubSeq(history[i].content, 1, 18) = "[Fact-check result"}

IsAffirmative(message) == Strip(Lower(message)) \in affirmative

\* the last response carried a consent prompt for the session
Prompted(session_id) ==
    /\ "status" \in DOMAIN response /\ response.status = 200
    /\ response.body.session_id = session_id
    /\ response.body.consent_request /= None

\* C1: every call of execute_fact_check is made in a turn where a detection
\* was pending from the consent prompt of the immediately preceding turn of
\* the session and the message is affirmative; a turn of the normal pipeline
\* (no detection pending) makes none.
C1_DispatchOnlyAfterPrompt ==
    [][Dispatches(calls') /= {} =>
            /\ pending(sessions, request'.session_id) /= None
            /\ Prompted(request'.session_id)
            /\ IsAffirmative(request'.message)]_vars

\* a second call of execute_fact_check for one consent prompt has completed
C1_SecondDispatch ==
    /\ "s1" \in DOMAIN sessions
    /\ Cardinality(FactCheckNotes(sessions["s1"].conversation_history)) = 2
    /\ Dispatches(calls) /= {}
    /\ "status" \in DOMAIN response /\ response.status = 200

\* C2: a message in AWAITING_CONSENT that is affirmative makes exactly one
\* call of execute_fact_check, for the pending detection, and leaves the
\* session in IDLE; any other message makes none and leaves it in IDLE.
C2_ConsentAnswer ==
    [][LET s == request'.session_id
           held == pending(sessions, s)
       IN  held /= None =>
            /\ pending(sessions', s) = None
            /\ IF IsAffirmative(request'.message)
               THEN /\ Cardinality(Dispatches(calls')) = 1
                    /\ calls'[1].api = "execute_fact_check"
                    /\ calls'[1].agent_type = held[1].agent_type
                    /\ calls'[1].query = held[1].query
               ELSE Dispatches(calls') = {}]_vars

\* an affirmative answer made its one call and the session still awaits
\* consent
C2_StillAwaiting ==
    /\ pending(sessions, "s1") /= None
    /\ request.op = "chat" /\ IsAffirmative(request.message)
    /\ Cardinality(Dispatches(calls)) = 1
    /\ response.status = 500

\* C3: the message after the one that set a pending detection clears it,
\* whatever the answer and whatever the lookup and the completion do.
C3_ClearedByNextMessage ==
    [][pending(sessions, request'.session_id) /= None
            => pending(sessions', request'.session_id) = None]_vars

\* a detection has outlived two answers
C3_OutlivedTwoAnswers ==
    /\ pending(sessions, "s1") /= None
    /\ Cardinality(FactCheckNotes(sessions["s1"].conversation_history)) = 2

\* C4: a session holds at most one pending detection and none is recorded
\* over it: a turn that starts with a detection pending leaves it or clears
\* it, and is not a turn of the normal pipeline (which alone assigns
\* pending_fact_check, after appending the user's message to the history).
C4_PendingNotOverwritten ==
    [][LET s == request'.session_id
           held == pending(sessions, s)
       IN  held /= None =>
            /\ pending(sessions', s) \in {None, held}
            /\ WithRole(sessions'[s].conversation_history, "user")
                = WithRole(sessions[s].conversation_history, "user")]_vars

\* a message with a fact-check pattern arrived while a detection was pending
C4_PatternWhilePending ==
    /\ request.op = "chat" /\ request.message = "Bob said the price is high"
    /\ response.status = 200 /\ response.body.response = decline_reply
    /\ pending(sessions, "s1") = None

\* C5: a message in AWAITING_CONSENT leaves the negotiation of the session
\* as it was, issues no discount code and records no new detection.
C5_ConsentTurnFrame ==
    [][LET s == request'.session_id
           held == pending(sessions, s)
       IN  held /= None =>
            /\ negotiations' = negotiations
            /\ sessions'[s].last_discount_code = sessions[s].last_discount_code
            /\ \A i \in 1..Len(calls') : calls'[i].api /= "shopify.create_discount_code"
            /\ pending(sessions', s) \in {None, held}]_vars

\* a message with a negotiation keyword and a trait arrived while a
\* detection was pending
C5_NegotiationWhilePending ==
    /\ request.op = "chat" /\ request.message = "I work at a salon, any discount?"
    /\ response.status = 200 /\ response.body.response = decline_reply
    /\ calls = <<>>

-----------------------------------------------------------------------------
(* The negotiation engine (SpecEngine) *)

\* the negotiation of a session before a call that creates it when absent
Negotiation(negs, session_id) == get_negotiation(negs, session_id)[session_id]

Recorded(neg) == {neg.offers[i].discount_pct : i \in 1..Len(neg.offers)}
                    \cup {neg.current_discount_pct}

OfferOps == {"make_offer", "get_next_offer", "make_discount_offer"}

\* C6: every recorded offer and every current_discount_pct is at most
\* max_discount_pct and leaves a margin of at least floor_margin_pct.
C6_WithinCeilingAndFloor ==
    \A s \in DOMAIN negotiations : \A d \in Recorded(negotiations[s]) :
        d <= cfg.max_discount_pct /\ 100 - d >= cfg.floor_margin_pct

\* a trait bonus was cut at the ceiling
C6_BonusAtCeiling ==
    /\ request.op = "make_discount_offer"
    /\ Get(response, "trait_bonus_applied", FALSE)
    /\ response.discount_pct = cfg.max_discount_pct
    /\ response.base_discount_pct + request.trait_bonus_pct > cfg.max_discount_pct

\* C7: counter never decreases and never exceeds max_counters; after three
\* offers a make_offer with a discount that passes the ceiling and the floor
\* fails with the counter error and leaves counter and offers as they were.
C7_CounterBounded ==
    [][\A s \in DOMAIN negotiations' :
        LET before == Negotiation(negotiations, s)
            after == negotiations'[s]
        IN  /\ after.counter >= before.counter
            /\ after.counter <= max_counters
            /\ ( /\ request'.op = "make_offer" /\ request'.session_id = s
                 /\ before.counter = max_counters
                 /\ request'.discount_pct <= cfg.max_discount_pct
                 /\ 100 - request'.discount_pct >= cfg.floor_margin_pct )
                => /\ response'.success = FALSE
                   /\ response'.error = CounterError(before)
                   /\ after.counter = before.counter
                   /\ after.offers = before.offers]_vars

\* a fourth make_offer with a valid discount was refused
C7_FourthRefused ==
    /\ request.op = "make_offer"
    /\ request.discount_pct <= cfg.max_discount_pct
    /\ 100 - request.discount_pct >= cfg.floor_margin_pct
    /\ ~response.success /\ response.error = "Maximum 3 counters reached"
    /\ negotiations[request.session_id].counter = 3

\* C8: len(offers) = counter in every state, and an offer that succeeds,
\* with or without a trait bonus, adds one to counter and one Offer to offers.
C8_OneOfferPerCount ==
    [][\A s \in DOMAIN negotiations' :
        LET before == Negotiation(negotiations, s)
            after == negotiations'[s]
        IN  /\ Len(after.offers) = after.counter
            /\ (request'.op \in OfferOps /\ request'.session_id = s
                    /\ response'.success)
                => /\ after.counter = before.counter + 1
                   /\ Len(after.offers) = Len(before.offers) + 1
                   /\ SubSeq(after.offers, 1, Len(before.offers)) = before.offers
                   /\ after.offers[after.counter].counter = after.counter]_vars

\* a third offer succeeded with a trait bonus
C8_ThirdWithBonus ==
    /\ request.op = "make_discount_offer"
    /\ response.success /\ Get(response, "trait_bonus_applied", FALSE)
    /\ negotiations[request.session_id].counter = 3
    /\ Len(negotiations[request.session_id].offers) = 3

\* C9: a make_offer or get_next_offer that fails a validation returns a
\* result with success false and an error, and leaves counter, offers and
\* current_discount_pct as they were.
C9_FailureLeavesState ==
    [][\A s \in DOMAIN negotiations' :
        (request'.op \in {"make_offer", "get_next_offer"} /\ request'.session_id = s
            /\ ~response'.success)
            => /\ "error" \in DOMAIN response'
               /\ negotiations'[s] = Negotiation(negotiations, s)]_vars

\* a get_next_offer failed the floor check after an offer had been recorded
C9_NextOfferRefused ==
    /\ request.op = "get_next_offer"
    /\ ~response.success
    /\ response.error /= "Maximum 3 counters reached"
    /\ negotiations[request.session_id].counter \in 1..2

\* C10: every recorded offer and every current_discount_pct is at least 0,
\* whatever discount is passed to make_offer.
C10_NonNegative ==
    \A s \in DOMAIN negotiations : \A d \in Recorded(negotiations[s]) : d >= 0

\* a negative discount was recorded as an offer
C10_NegativeRecorded ==
    /\ request.op = "make_offer" /\ request.discount_pct < 0
    /\ response.success
    /\ \E s \in DOMAIN negotiations :
        negotiations[s].offers /= <<>> /\ negotiations[s].current_discount_pct < 0

\* the offers of a negotiation follow the automatic escalation
Escalating(neg) ==
    /\ \A i \in 1..Len(neg.offers) :
        neg.offers[i].discount_pct
            = Min(cfg.first_offer_pct + (i - 1) * cfg.counter_step_pct,
                  cfg.max_discount_pct)
    /\ neg.offers /= <<>>
        => neg.current_discount_pct = neg.offers[Len(neg.offers)].discount_pct

\* C11: from a fresh session the k-th successful get_next_offer (k = 1..3)
\* yields min(first_offer_pct + (k-1) * counter_step_pct, max_discount_pct):
\* 8, 11, 14 for 8, 3, 20.  Stated per call: after k-1 escalation offers a
\* get_next_offer that is given no previous discount, or the current one,
\* and succeeds yields the k-th value and records it.
C11_EscalationSequence ==
    [][\A s \in DOMAIN negotiations' :
        LET before == Negotiation(negotiations, s)
        IN  ( /\ request'.op = "get_next_offer" /\ request'.session_id = s
              /\ request'.previous_discount
                    \in {None, Some(before.current_discount_pct)}
              /\ Escalating(before)
              /\ response'.success )
            => /\ response'.discount_pct
                    = Min(cfg.first_offer_pct + before.counter * cfg.counter_step_pct,
                          cfg.max_discount_pct)
               /\ response'.counter = before.counter + 1
               /\ Escalating(negotiations'[s])]_vars

\* three get_next_offer calls have yielded 8, 11, 14
C11_EightElevenFourteen ==
    /\ request.op = "get_next_offer" /\ request.previous_discount = None
    /\ response.success
    /\ cfg.first_offer_pct = 8 /\ cfg.counter_step_pct = 3 /\ cfg.max_discount_pct = 20
    /\ LET offers == negotiations[request.session_id].offers
       IN  [i \in 1..Len(offers) |-> offers[i].discount_pct] = <<8, 11, 14>>

\* the negotiations and the result of a make_discount_offer before its trait
\* bonus step
BaseOffer(negs, req) == make_discount_offer(negs, req.session_id, req.discount_pct, 0)

\* a step is a make_discount_offer whose offer succeeded, with a trait bonus
BonusStep(req, res) ==
    /\ req.op = "make_discount_offer" /\ req.trait_bonus_pct > 0
    /\ res.success

Last(seq) == seq[Len(seq)]

\* C12: after the trait bonus step the most recent offer's discount is at
\* most max_discount_pct and its margin at least floor_margin_pct, for every
\* base offer and every bonus.
C12_BonusWithinCeilingAndFloor ==
    [][BonusStep(request', response') =>
        LET offer == Last(negotiations'[request'.session_id].offers)
        IN  /\ offer.discount_pct <= cfg.max_discount_pct
            /\ offer.margin_pct >= cfg.floor_margin_pct
            /\ offer.margin_pct = 100 - offer.discount_pct
            /\ response'.discount_pct = offer.discount_pct]_vars

\* a trait bonus was applied in full below the ceiling
C12_BonusInFull ==
    /\ request.op = "make_discount_offer"
    /\ Get(response, "trait_bonus_applied", FALSE)
    /\ response.discount_pct = response.base_discount_pct + request.trait_bonus_pct
    /\ response.discount_pct < cfg.max_discount_pct

\* C13 as claimed: when base + bonus exceeds max_discount_pct, or would put
\* the margin below floor_margin_pct, the most recent Offer and
\* current_discount_pct keep their pre-bonus values.
C13_RetainedWhenOver ==
    [][BonusStep(request', response') =>
        LET s == request'.session_id
            base == BaseOffer(negotiations, request').negs[s]
            boosted == base.current_discount_pct + request'.trait_bonus_pct
        IN  (boosted > cfg.max_discount_pct \/ 100 - boosted < cfg.floor_margin_pct)
                => negotiations'[s] = base]_vars

\* C13 as amended: base + bonus is first cut to max_discount_pct; when the
\* cut value would put the margin below floor_margin_pct (or is not above
\* the base) the most recent Offer and current_discount_pct keep their
\* pre-bonus values.
C13_RetainedWhenBelowFloor ==
    [][BonusStep(request', response') =>
        LET s == request'.session_id
            base == BaseOffer(negotiations, request').negs[s]
            candidate == Min(base.current_discount_pct + request'.trait_bonus_pct,
                             cfg.max_discount_pct)
        IN  (candidate <= base.current_discount_pct
                \/ 100 - candidate < cfg.floor_margin_pct)
                => /\ negotiations'[s] = base
                   /\ "trait_bonus_applied" \notin DOMAIN response']_vars

\* a trait bonus was refused for the floor margin
C13_BonusRefusedForFloor ==
    /\ request.op = "make_discount_offer" /\ request.trait_bonus_pct > 0
    /\ response.success
    /\ "trait_bonus_applied" \notin DOMAIN response
    /\ 100 - Min(response.discount_pct + request.trait_bonus_pct, cfg.max_discount_pct)
            < cfg.floor_margin_pct

\* C14: the trait bonus step leaves counter, the number of offers and every
\* offer but the most recent as the base offer left them; it rewrites the
\* discount and margin of the most recent one exactly when
\* candidate = min(base + bonus, max_discount_pct) > base and
\* 100 - candidate >= floor_margin_pct, and otherwise changes nothing.
C14_BonusStepFrame ==
    [][BonusStep(request', response') =>
        LET s == request'.session_id
            base == BaseOffer(negotiations, request').negs[s]
            after == negotiations'[s]
            n == Len(base.offers)
            candidate == Min(base.current_discount_pct + request'.trait_bonus_pct,
                             cfg.max_discount_pct)
        IN  /\ after.counter = base.counter
            /\ Len(after.offers) = n
            /\ SubSeq(after.offers, 1, n - 1) = SubSeq(base.offers, 1, n - 1)
            /\ after.offers[n].counter = base.offers[n].counter
            /\ IF candidate > base.current_discount_pct
                    /\ 100 - candidate >= cfg.floor_margin_pct
               THEN /\ after.offers[n].discount_pct = candidate
                    /\ after.offers[n].margin_pct = 100 - candidate
                    /\ after.current_discount_pct = candidate
               ELSE after = base]_vars

\* a trait bonus rewrote the second offer of a negotiation
C14_SecondOfferRewritten ==
    /\ request.op = "make_discount_offer"
    /\ Get(response, "trait_bonus_applied", FALSE)
    /\ negotiations[request.session_id].counter = 2
    /\ negotiations[request.session_id].offers[2].discount_pct
            > response.base_discount_pct

-----------------------------------------------------------------------------
(* The router (SpecRouter) *)

\* the capability for an agent type is configured; there is none for any
\* other agent type
Available(agent_type) ==
    \/ agent_type = "brave" /\ cfg.brave_agent
    \/ agent_type = "linkedin" /\ cfg.linkedin_agent

\* C15: should_ask_consent is true iff the detection is needed, its
\* confidence is at least 0.5 and the capability for its agent_type is
\* configured; false whenever no capability exists for the agent_type.
C15_ConsentIffAvailable ==
    request.op = "should_ask_consent" =>
        LET detection == request.detection
        IN  response.value
                = ( /\ Get(detection, "needed", FALSE)
                    /\ Get(detection, "confidence", 0) >= 50
                    /\ Available(detection.agent_type) )

\* consent would be asked for a detection whose agent type has no capability
C15_ConsentWithoutCapability ==
    /\ request.op = "should_ask_consent"
    /\ response.value
    /\ request.detection.agent_type \notin {"brave", "linkedin"}

\* the message of a detect_fact_check_needed call, lower-cased
Lowered(req) == LowerSeq(Chars(req.message))

\* C18: the linkedin patterns are tried before the verification patterns: a
\* message matching any linkedin pattern is classified linkedin with
\* confidence 0.7 even when it also matches a verification pattern; a message
\* matching no pattern gets needed = false with no agent type.
C18_DirectoryLookupFirst ==
    request.op = "detect_fact_check_needed" =>
        LET t == Lowered(request)
        IN  /\ LinkedinQuery(t) /= None
                => /\ response.needed
                   /\ response.agent_type = "linkedin"
                   /\ response.confidence = 70
            /\ (LinkedinQuery(t) = None /\ ~BraveMatch(t) /\ ~FactCheckMatch(t))
                => /\ ~response.needed
                   /\ response.agent_type = "None"
                   /\ response.query = None
            /\ response.agent_type = "linkedin" => LinkedinQuery(t) /= None

\* "my company is Acme" matches a verification pattern too and is classified
\* linkedin
C18_CompanyIsLinkedin ==
    /\ request.op = "detect_fact_check_needed"
    /\ request.message = "my company is Acme"
    /\ BraveMatch(Lowered(request))
    /\ response.agent_type = "linkedin" /\ response.confidence = 70

\* a named-source pattern matches: according to ..., X said/claims/stated ...
NamedSource(t) ==
    \/ After(t, "according to ") /= {}
    \/ Around(t, " said ") \/ Around(t, " claims ") \/ Around(t, " stated ")

\* the generic assertion X is/are Y matches
GenericAssertion(t) == Around(t, " is ") \/ Around(t, " are ")

\* a verification pattern other than the generic assertion matches
OtherVerification(t) ==
    \/ NamedSource(t)
    \/ After(t, "i read ") /= {} \/ After(t, "i heard ") /= {} \/ After(t, "i saw ") /= {}

\* C19: within the verification family a named-source match gets confidence
\* 0.6, and a message matching only the generic "X is/are Y" assertion gets
\* the fallback confidence 0.5.
C19_GenericAssertionFallback ==
    (request.op = "detect_fact_check_needed" /\ LinkedinQuery(Lowered(request)) = None) =>
        LET t == Lowered(request)
        IN  /\ NamedSource(t)
                => response.agent_type = "brave" /\ response.confidence = 60
            /\ (GenericAssertion(t) /\ ~OtherVerification(t))
                => response.agent_type = "brave" /\ response.confidence = 50

\* a message that matches only the generic assertion was given 0.6
C19_GenericAssertionAtSixty ==
    /\ request.op = "detect_fact_check_needed"
    /\ request.message = "The sky is blue"
    /\ ~OtherVerification(Lowered(request))
    /\ response.agent_type = "brave" /\ response.confidence = 60

\* C20: execute_fact_check never raises: it returns the capability's result,
\* a failure of the capability being a result with success false and a
\* summary, or, for an agent type that is unknown or not configured, the
\* result {success: false, error, agent_type} without any call.
C20_DispatchNeverRaises ==
    request.op = "execute_fact_check" =>
        /\ response /= None
        /\ "success" \in DOMAIN response
        /\ IF Available(request.agent_type)
           THEN /\ Len(calls) = 1
                /\ "summary" \in DOMAIN response
                /\ response.success = (request.lookup = "found")
                /\ ~response.success => "error" \in DOMAIN response
           ELSE /\ calls = <<>>
                /\ DOMAIN response = {"success", "error", "agent_type"}
                /\ ~response.success
                /\ response.agent_type = request.agent_type

\* a capability failed and its failure was returned
C20_FailureReturned ==
    /\ request.op = "execute_fact_check"
    /\ request.lookup = "failed"
    /\ Len(calls) = 1
    /\ response /= None /\ ~response.success /\ "summary" \in DOMAIN response

-----------------------------------------------------------------------------
(* Asking for consent (Spec) *)

BravePrompt == Some("Can I verify that on Brave search? (yes/no)")
LinkedInPrompt == Some("Can I look that up on LinkedIn? (yes/no)")

\* a step is a turn of session s that started without a pending detection
\* and completed
IdleTurn(s) ==
    /\ request'.op = "chat" /\ request'.session_id = s
    /\ pending(sessions, s) = None
    /\ response'.status = 200

\* C16: after every completed turn that started with no detection pending,
\* the session holds the turn's detection exactly when should_ask_consent
\* was true for it, and the reply carries a consent prompt in exactly those
\* turns, worded for the detection's agent type.
C16_AwaitingIffConsentAsked ==
    [][\A s \in SessionIds : IdleTurn(s) =>
        LET detection == detect_fact_check_needed(Strip(request'.message))
            ask == should_ask_consent(detection)
        IN  /\ pending(sessions', s) = (IF ask THEN Some(detection) ELSE None)
            /\ response'.body.consent_request
                = (IF ~ask THEN None
                   ELSE IF detection.agent_type = "linkedin" THEN LinkedInPrompt
                   ELSE BravePrompt)]_vars

\* a turn has asked for consent to a LinkedIn lookup
C16_LinkedInAsked ==
    /\ request.op = "chat" /\ response.status = 200
    /\ response.body.consent_request = LinkedInPrompt
    /\ pending(sessions, request.session_id) /= None
    /\ pending(sessions, request.session_id)[1].agent_type = "linkedin"

\* C17: no detection is pending and no consent prompt is returned for a
\* capability that is not configured; with neither capability configured no
\* session ever holds a detection and no dispatch is made.
C17_UnconfiguredNeverAsked ==
    /\ \A s \in DOMAIN sessions :
        pending(sessions, s) /= None => Available(pending(sessions, s)[1].agent_type)
    /\ ("status" \in DOMAIN response /\ response.status = 200) =>
        /\ response.body.consent_request = BravePrompt => cfg.brave_agent
        /\ response.body.consent_request = LinkedInPrompt => cfg.linkedin_agent
    /\ (~cfg.brave_agent /\ ~cfg.linkedin_agent) =>
        /\ \A s \in DOMAIN sessions : pending(sessions, s) = None
        /\ Dispatches(calls) = {}
        /\ "status" \in DOMAIN response /\ response.status = 200
            => response.body.consent_request = None

\* a message of the verification family was answered without a prompt
\* because the search capability is not configured
C17_SearchNotConfigured ==
    /\ request.op = "chat" /\ response.status = 200
    /\ detect_fact_check_needed(request.message).agent_type = "brave"
    /\ ~cfg.brave_agent
    /\ response.body.consent_request = None
    /\ pending(sessions, request.session_id) = None

-----------------------------------------------------------------------------
(* The order of the checks and the summary (SpecEngine) *)

\* C28: make_offer checks ceiling, counter, floor in this order and reports
\* the first that fails: ceiling and counter both violated gives the ceiling
\* error; counter and floor violated (ceiling not) gives the counter error.
C28_FirstFailureReported ==
    [][request'.op = "make_offer" =>
        LET neg == Negotiation(negotiations, request'.session_id)
            d == request'.discount_pct
            ceiling == d > cfg.max_discount_pct
            counter == neg.counter >= max_counters
            floor == 100 - d < cfg.floor_margin_pct
        IN  /\ response'.success = (~ceiling /\ ~counter /\ ~floor)
            /\ ceiling => response'.error = CeilingError(d)
            /\ (~ceiling /\ counter) => response'.error = CounterError(neg)
            /\ (~ceiling /\ ~counter /\ floor) => response'.error = FloorError(d)]_vars

\* an offer over the counter limit and under the floor margin, within the
\* ceiling, was refused for the counter limit
C28_CounterBeforeFloor ==
    /\ request.op = "make_offer"
    /\ request.discount_pct <= cfg.max_discount_pct
    /\ 100 - request.discount_pct < cfg.floor_margin_pct
    /\ negotiations[request.session_id].counter = max_counters
    /\ response.error = "Maximum 3 counters reached"

\* C30: get_summary, reached through get_negotiation_summary, leaves
\* counter, offers and current_discount_pct of every session as they were
\* and reports remaining_counters = max_counters - counter together with the
\* full offer history.
C30_SummaryReadOnly ==
    [][request'.op = "get_negotiation_summary" =>
        /\ \A s \in SessionIds :
                Negotiation(negotiations', s) = Negotiation(negotiations, s)
        /\ LET neg == Negotiation(negotiations, request'.session_id)
           IN  /\ response'.counter = neg.counter
               /\ response'.remaining_counters = max_counters - neg.counter
               /\ response'.current_discount_pct = neg.current_discount_pct
               /\ response'.offers = neg.offers]_vars

\* the summary of a negotiation with two offers
C30_SummaryOfTwoOffers ==
    /\ request.op = "get_negotiation_summary"
    /\ Len(response.offers) = 2 /\ response.remaining_counters = 1
    /\ negotiations[request.session_id].offers = response.offers

-----------------------------------------------------------------------------
(* The discount service (SpecDiscount) *)

\* C22: whenever the engine accepts an offer and the shop is unavailable or
\* its discount-code creation fails, by raising or by returning a failure,
\* create_negotiation_discount returns success with a simulated code flagged
\* simulated.
C22_SimulatedFallback ==
    [][request'.op = "create_negotiation_discount" =>
        LET s == request'.session_id
            accepted == negotiations'[s].counter = Negotiation(negotiations, s).counter + 1
        IN  (accepted /\ (~cfg.shopify_client \/ request'.shopify \in {"raised", "rejected"}))
                => /\ response'.success
                   /\ Get(response', "simulated", FALSE)
                   /\ "discount_code" \in DOMAIN response']_vars

\* the shop returned a failure for an offer the engine has recorded, and the
\* call failed
C22_RejectedAfterRecording ==
    /\ request.op = "create_negotiation_discount" /\ request.shopify = "rejected"
    /\ ~response.success /\ "discount_code" \notin DOMAIN response
    /\ negotiations[request.session_id].counter = 1
    /\ Last(negotiations[request.session_id].offers).discount_pct = response.discount_pct

-----------------------------------------------------------------------------
(* The trait detector (SpecTraits) *)

\* the detected_traits the detector of a session holds
DetectorState(all, session_id) ==
    IF session_id \in DOMAIN all THEN all[session_id].detected_traits ELSE <<>>

\* C26: detect_traits and get_discount_bonus change no state of the trait
\* detector.
C26_DetectorUnchanged ==
    [][request'.op \in {"detect_traits", "get_discount_bonus"} =>
        \A s \in SessionIds : DetectorState(sessions', s) = DetectorState(sessions, s)]_vars

\* has_valuable_trait answers from what an earlier detect_traits call left
C26_AnswerFromEarlierCall ==
    /\ request.op = "has_valuable_trait"
    /\ response.value
    /\ sessions[request.session_id].detected_traits = <<"salon_owner", "influencer">>

\* C27: get_discount_bonus is the confidence-weighted sum of the traits'
\* discount_bonus_pct capped at max_trait_bonus_pct: never above the cap, 0
\* for an empty list.
C27_WeightedSumCapped ==
    request.op = "get_discount_bonus" =>
        LET traits == request.traits
            sum == TotalBonus(traits)
        IN  /\ response.value <= cfg.max_trait_bonus_pct
            /\ traits = <<>> => response.value = 0
            /\ sum <= cfg.max_trait_bonus_pct => response.value = sum
            /\ sum > cfg.max_trait_bonus_pct => response.value = cfg.max_trait_bonus_pct

\* a bonus was cut to the cap
C27_BonusCut ==
    /\ request.op = "get_discount_bonus"
    /\ TotalBonus(request.traits) > cfg.max_trait_bonus_pct
    /\ response.value = cfg.max_trait_bonus_pct

-----------------------------------------------------------------------------
(* Pricing in a turn (Spec) *)

\* the entries a turn appended to the history of a session
Appended(s) ==
    SubSeq(sessions'[s].conversation_history,
           Len(get_or_create_session(sessions, s)[s].conversation_history) + 1,
           Len(sessions'[s].conversation_history))

IsSystemNote(msg) == msg.role = "system"

\* the calls of the shop among the calls of a turn
ShopCalls(made) == {i \in 1..Len(made) : made[i].api = "shopify.create_discount_code"}

\* C21: in a turn that starts with no detection pending, the negotiation is
\* changed only when the message has negotiation intent and a trait is
\* detected; with intent and no trait the turn adds the probe note and leaves
\* counter, offers and current_discount_pct alone; without intent the turn
\* takes no pricing action at all.
C21_PricingOnlyWithIntentAndTrait ==
    [][\A s \in SessionIds :
        (request'.op = "chat" /\ request'.session_id = s /\ pending(sessions, s) = None) =>
        LET user_message == Strip(request'.message)
            before == get_or_create_session(sessions, s)[s]
            intent == detect_negotiation_intent(user_message).should_offer_discount
            traits == detect_traits(get_conversation_context(
                        Append(before.conversation_history,
                               Message("user", user_message))))
            notes == SelectSeq(Appended(s), IsSystemNote)
        IN  /\ (~intent \/ traits = <<>>) =>
                /\ negotiations' = negotiations
                /\ ShopCalls(calls') = {}
                /\ sessions'[s].last_discount_code = before.last_discount_code
            /\ (intent /\ traits = <<>>) => notes = <<Message("system", probe_context)>>
            /\ ~intent => notes = <<>>
            /\ Appended(s)[1] = Message("user", user_message)]_vars

\* a turn with negotiation intent and no trait added the probe note and
\* made no offer
C21_Probed ==
    /\ request.op = "chat" /\ response.status = 200
    /\ request.session_id \in DOMAIN sessions
    /\ request.session_id \notin DOMAIN negotiations
    /\ LET history == sessions[request.session_id].conversation_history
       IN  /\ Len(history) = 4
           /\ history[3] = Message("system", probe_context)

-----------------------------------------------------------------------------
(* Errors at the transport boundary (Spec) *)

\* the invariants of a negotiation: counter within its limit, one offer per
\* count, numbered 1.., margins complementary, current the last offer
WellFormed(neg) ==
    /\ neg.counter \in 0..max_counters
    /\ Len(neg.offers) = neg.counter
    /\ \A i \in 1..Len(neg.offers) :
        /\ neg.offers[i].counter = i
        /\ neg.offers[i].margin_pct = 100 - neg.offers[i].discount_pct
        /\ neg.offers[i].discount_pct <= cfg.max_discount_pct
        /\ neg.offers[i].margin_pct >= cfg.floor_margin_pct
    /\ neg.current_discount_pct
        = (IF neg.offers = <<>> THEN 0 ELSE Last(neg.offers).discount_pct)

\* C23: an error raised inside a turn is reported as an error string by the
\* endpoint and leaves the session sound: the negotiation invariants hold
\* and no detection stays pending that the turn has answered or dispatched.
C23_ErrorLeavesSessionSound ==
    [][(request'.op = "chat" /\ response'.status = 500) =>
        LET s == request'.session_id
        IN  /\ "error" \in DOMAIN response'.body
            /\ \A t \in DOMAIN negotiations' : WellFormed(negotiations'[t])
            /\ pending(sessions', s) /= None
                => (pending(sessions, s) = None /\ Dispatches(calls') = {})]_vars

\* a turn ended in an error after its lookup, with the detection still held
C23_PendingAfterError ==
    /\ request.op = "chat" /\ response.status = 500
    /\ Dispatches(calls) /= {}
    /\ pending(sessions, request.session_id) /= None
    /\ \A t \in DOMAIN negotiations : WellFormed(negotiations[t])

-----------------------------------------------------------------------------
(* Two sessions (SpecPair) *)

\* what a session holds: its agent and its negotiation, None when absent
Held(all, negs, t) ==
    [agent |-> IF t \in DOMAIN all THEN Some(all[t]) ELSE None,
     negotiation |-> IF t \in DOMAIN negs THEN Some(negs[t]) ELSE None]

\* C24: a turn of one session changes nothing of another session: not its
\* negotiation, its pending detection, its history or its detected traits,
\* however the turns of the sessions are interleaved.
C24_OtherSessionUntouched ==
    [][\A t \in SessionPair :
        (request'.op = "chat" /\ request'.session_id /= t)
            => Held(sessions', negotiations', t) = Held(sessions, negotiations, t)]_vars

\* both sessions have negotiated and hold different states
C24_TwoNegotiations ==
    /\ DOMAIN negotiations = SessionPair
    /\ negotiations["s1"].counter = 2 /\ negotiations["s2"].counter = 1
    /\ pending(sessions, "s1") = None /\ pending(sessions, "s2") /= None

-----------------------------------------------------------------------------
(* The text given to trait detection (SpecLong) *)

\* the last n entries of a sequence
LastN(seq, n) == SubSeq(seq, IF Len(seq) > n THEN Len(seq) - n + 1 ELSE 1, Len(seq))

\* the text of the last 6 conversational entries of a history
LastSixConversational(history) ==
    LET recent == LastN(SelectSeq(history, IsConversational), 6)
    IN  Join(" ", [i \in 1..Len(recent) |-> recent[i].content])

\* C29: in a turn that starts with no detection pending, trait detection
\* runs over the text of the last 6 user/assistant entries of the history,
\* however many system notes lie between them.
C29_LastSixConversationalTurns ==
    [][\A s \in SessionIds :
        (request'.op = "chat" /\ request'.session_id = s /\ pending(sessions, s) = None) =>
        LET before == get_or_create_session(sessions, s)[s]
            history == Append(before.conversation_history,
                              Message("user", Strip(request'.message)))
        IN  sessions'[s].detected_traits
                = TraitNames(detect_traits(LastSixConversational(history)))]_vars

\* a turn detected no trait although the message naming the trait is one of
\* the last 6 user/assistant entries
C29_TraitOutOfWindow ==
    /\ request.op = "chat" /\ response.status = 200
    /\ sessions[request.session_id].detected_traits = <<>>
    /\ LET history == sessions[request.session_id].conversation_history
       IN  /\ Len(SelectSeq(history, IsConversational)) <= 6
           /\ history[2] = Message("user", "I work at a salon, any discount?")

-----------------------------------------------------------------------------
(* The session registry under concurrent requests (SpecRegistry) *)

\* the requests that have taken their agent from the registry
Served == {r \in DOMAIN inflight.requests : inflight.requests[r].pc \in {"chat", "done"}}

\* C25: when requests with the same unregistered session_id interleave in
\* get_or_create_session, one BouncerAgent is constructed for the
\* session_id and every request uses the registered one, so that no session
\* state is lost or duplicated.
C25_OneSessionState ==
    /\ Len(inflight.agents) = Cardinality(DOMAIN inflight.registered)
    /\ \A r \in Served :
        inflight.requests[r].agent = inflight.registered[inflight.requests[r].session_id]

\* both requests were answered and the registered session has the turn of
\* only one of them
C25_TurnLost ==
    /\ \A r \in Requests :
        r \in DOMAIN inflight.requests /\ inflight.requests[r].pc = "done"
    /\ response.status = 200
    /\ Len(inflight.agents) = 2
    /\ Len(SelectSeq(sessions["s1"].conversation_history, IsConversational)) = 2

-----------------------------------------------------------------------------
(* Directory lookups and detections (SpecRouter) *)

\* the extracted_info of a dispatch (nothing extracted without a context)
InfoOf(context) ==
    IF context /= None THEN context[1].extracted_info
    ELSE [name |-> None, company |-> None, title |-> None]

\* C31: a directory lookup takes its parameters from extracted_info in
\* preference to the raw query: name and company give a person lookup with
\* both, company alone a company lookup, name alone a person lookup by name,
\* and only with neither a person lookup on the raw query.
C31_ExtractedInfoPreferred ==
    (request.op = "execute_fact_check" /\ request.agent_type = "linkedin"
        /\ cfg.linkedin_agent) =>
        LET info == InfoOf(request.context)
        IN  calls =
              << IF info.company /= None /\ info.name /= None
                    THEN [api |-> "linkedin.lookup_person", name |-> info.name,
                          company |-> info.company]
                 ELSE IF info.company /= None
                    THEN [api |-> "linkedin.lookup_company",
                          company_name |-> info.company]
                 ELSE IF info.name /= None
                    THEN [api |-> "linkedin.lookup_person", name |-> info.name,
                          company |-> None]
                 ELSE [api |-> "linkedin.lookup_person", name |-> request.query,
                       company |-> None] >>

\* a company lookup was made from extracted_info although a query was given
C31_CompanyLookup ==
    /\ request.op = "execute_fact_check" /\ request.query = Some("The sky is blue")
    /\ calls = <<[api |-> "linkedin.lookup_company", company_name |-> Some("acme")]>>

\* the text after the leading "i work at " of a message, lower-cased
WorkplaceText(message) ==
    LET t == LowerSeq(Chars(message))
    IN  Str(SubSeq(t, Len("i work at ") + 1, Len(t)))

\* a message of the form  I work at <company>
IsWorkAtMessage(message) ==
    LET t == LowerSeq(Chars(message))
    IN  /\ Len(t) > Len("i work at ")
        /\ SubSeq(t, 1, Len("i work at ")) = Chars("i work at ")
        /\ TitleA(t) \cup TitleAn(t) = {}

\* C32: for a message  I work at <company>  the detection is a linkedin one
\* whose extracted_info.company is the company text lower-cased and trimmed.
C32_CompanyLowerCasedAndTrimmed ==
    (request.op = "detect_fact_check_needed" /\ IsWorkAtMessage(request.message)) =>
        /\ response.needed /\ response.agent_type = "linkedin"
        /\ response.extracted_info.company = Some(Strip(WorkplaceText(request.message)))

\* "i WORK at  Acme Corp " gave the company "acme corp"
C32_AcmeCorp ==
    /\ request.op = "detect_fact_check_needed"
    /\ request.message = "i WORK at  Acme Corp "
    /\ response.agent_type = "linkedin"
    /\ response.extracted_info.company = Some("acme corp")

\* C39: a detection returned with needed = true has confidence >= 0.5 and
\* agent type brave or linkedin, so that for it the consent decision is the
\* availability of the capability for its agent type.
C39_NeededDetectionsAskable ==
    (request.op = "detect_fact_check_needed" /\ response.needed) =>
        /\ response.confidence >= 50
        /\ response.agent_type \in {"brave", "linkedin"}
        /\ should_ask_consent(response) = Available(response.agent_type)

\* a detection of the fallback confidence for which consent would be asked
C39_FallbackAskable ==
    /\ request.op = "detect_fact_check_needed"
    /\ response.needed /\ response.confidence = 50
    /\ cfg.brave_agent /\ should_ask_consent(response)

-----------------------------------------------------------------------------
(* Consented directory lookups (SpecConsent) *)

\* the directory calls among the calls of a turn
DirectoryCalls(made) ==
    {i \in 1..Len(made) :
        made[i].api \in {"linkedin.lookup_person", "linkedin.lookup_company"}}

\* C40: the extracted_info of a detection never carries a name, so the
\* dispatch of a consented directory lookup never looks a person up by name
\* and company: it looks the company up when one was extracted and otherwise
\* looks a person up on the query captured by the pattern.
C40_NoPersonLookupWithCompany ==
    /\ \A s \in DOMAIN sessions :
        (pending(sessions, s) /= None /\ pending(sessions, s)[1].agent_type = "linkedin")
            => pending(sessions, s)[1].extracted_info.name = None
    /\ \A i \in Dispatches(calls) :
        calls[i].agent_type = "linkedin" =>
            LET info == InfoOf(calls[i].context)
            IN  /\ info.name = None
                /\ \A j \in DirectoryCalls(calls) :
                    IF info.company /= None
                    THEN calls[j] = [api |-> "linkedin.lookup_company",
                                     company_name |-> info.company]
                    ELSE calls[j] = [api |-> "linkedin.lookup_person",
                                     name |-> calls[i].query, company |-> None]
                /\ cfg.linkedin_agent => DirectoryCalls(calls) /= {}

\* a consented lookup with no company extracted looked a person up on the
\* captured query
C40_PersonLookupOnQuery ==
    /\ request.op = "chat" /\ request.message = "Yes"
    /\ \E i \in Dispatches(calls) : InfoOf(calls[i].context).company = None
    /\ \E j \in DirectoryCalls(calls) : calls[j].api = "linkedin.lookup_person"

-----------------------------------------------------------------------------
(* Successive offers (SpecEngine) *)

\* a step is an automatic make_discount_offer that succeeded on a negotiation
\* which had an offer already
AutoStep ==
    /\ request'.op = "make_discount_offer" /\ request'.discount_pct = None
    /\ request'.trait_bonus_pct >= 0 /\ cfg.counter_step_pct >= 0
    /\ response'.success
    /\ request'.session_id \in DOMAIN negotiations
    /\ negotiations[request'.session_id].offers /= <<>>

\* C35: in auto mode each base offer after the first is the previous offer's
\* final (bonus-boosted) discount plus counter_step_pct, cut at
\* max_discount_pct, so the recorded discount does not fall from one
\* successful offer to the next and stays at the maximum once there.
C35_AutoOffersDoNotFall ==
    [][AutoStep =>
        LET previous == Last(negotiations[request'.session_id].offers).discount_pct
            recorded == Last(negotiations'[request'.session_id].offers).discount_pct
            base == Get(response', "base_discount_pct", response'.discount_pct)
        IN  /\ base = Min(previous + cfg.counter_step_pct, cfg.max_discount_pct)
            /\ recorded >= previous
            /\ previous = cfg.max_discount_pct => recorded = cfg.max_discount_pct]_vars

\* an automatic offer was made on top of a boosted one: 8 + 10, then 20
C35_SteppedFromBoosted ==
    /\ request.op = "make_discount_offer" /\ request.discount_pct = None
    /\ response.success
    /\ Len(negotiations[request.session_id].offers) = 2
    /\ negotiations[request.session_id].offers[1].discount_pct = 18
    /\ negotiations[request.session_id].offers[2].discount_pct = 20

\* C36: current_discount_pct is the discount_pct of the last offer, and 0
\* when no offer was recorded, also after a trait bonus overwrote the offer.
C36_CurrentIsLastOffer ==
    \A s \in DOMAIN negotiations :
        negotiations[s].current_discount_pct
            = IF negotiations[s].offers = <<>> THEN 0
              ELSE Last(negotiations[s].offers).discount_pct

\* a trait bonus overwrote the offer just recorded
C36_AfterBonusOverwrite ==
    /\ BonusStep(request, response)
    /\ "trait_bonus_applied" \in DOMAIN response
    /\ Last(negotiations[request.session_id].offers).discount_pct
        > response.base_discount_pct
    /\ negotiations[request.session_id].current_discount_pct
        = Last(negotiations[request.session_id].offers).discount_pct

-----------------------------------------------------------------------------
(* The reported trait bonus (SpecDiscount) *)

\* C37: the payload of an issued discount has trait_bonus_applied = true
\* exactly when the engine overwrote the offer with a boosted value; then
\* base_discount_pct is the discount before the bonus and discount_pct is
\* above it; otherwise trait_bonus_applied is false and base_discount_pct is
\* discount_pct.
C37_BonusReportedWhenApplied ==
    [][(request'.op = "create_negotiation_discount" /\ response'.success) =>
        LET base == BaseOffer(negotiations, request').result.discount_pct
            recorded == Last(negotiations'[request'.session_id].offers).discount_pct
            overwrote == recorded /= base
        IN  /\ response'.discount_pct = recorded
            /\ response'.trait_bonus_applied = overwrote
            /\ overwrote => /\ response'.base_discount_pct = base
                            /\ response'.discount_pct > response'.base_discount_pct
            /\ ~overwrote => response'.base_discount_pct = response'.discount_pct]_vars

\* a trait was detected but the offer already stood at the maximum: no bonus
\* is reported
C37_TraitWithoutBonus ==
    /\ request.op = "create_negotiation_discount" /\ response.success
    /\ response.detected_traits /= <<>>
    /\ ~response.trait_bonus_applied
    /\ response.base_discount_pct = response.discount_pct

-----------------------------------------------------------------------------
(* Issued codes (Spec) *)

\* the codes of the discount notes among some entries of a history
NotedCodes(entries) ==
    {c \in Codes : \E i \in 1..Len(entries) :
        /\ entries[i].role = "system"
        /\ Len(entries[i].content) >= Len("[Discount Available]: Code '" \o c \o "'")
        /\ SubSeq(entries[i].content, 1, Len("[Discount Available]: Code '" \o c \o "'"))
            = "[Discount Available]: Code '" \o c \o "'"}

\* the discount notes in a history
DiscountNotes(history) ==
    {i \in 1..Len(history) : NotedCodes(<<history[i]>>) /= {}}

\* C34: every turn that increments the counter also surfaces a code for the
\* offer, so in every state the number of codes issued in a session (its
\* discount notes) is its counter, and a code is held once the counter is
\* above 0.
C34_CodesEqualCounter ==
    \A s \in DOMAIN sessions :
        /\ Cardinality(DiscountNotes(sessions[s].conversation_history))
            = Negotiation(negotiations, s).counter
        /\ Negotiation(negotiations, s).counter > 0
            => sessions[s].last_discount_code /= None

\* an offer was recorded and the shop asked, and no code was surfaced
C34_CountedWithoutCode ==
    /\ request.op = "chat" /\ response.status = 200
    /\ ShopCalls(calls) /= {}
    /\ negotiations[request.session_id].counter = 1
    /\ DiscountNotes(sessions[request.session_id].conversation_history) = {}
    /\ sessions[request.session_id].last_discount_code = None
    /\ "discount_code" \notin DOMAIN response.body

\* a turn of a session that holds a code
HoldingTurn(s) ==
    /\ s \in DOMAIN sessions /\ sessions[s].last_discount_code /= None
    /\ request'.op = "chat" /\ request'.session_id = s

\* the code a session holds after a turn: the one the turn issued, or else
\* the one held before
CodeKept(s) ==
    sessions'[s].last_discount_code
        = IF NotedCodes(Appended(s)) /= {}
          THEN Some(CHOOSE c \in NotedCodes(Appended(s)) : TRUE)
          ELSE sessions[s].last_discount_code

\* C38 as stated: once a code was issued every later response of the session
\* carries the most recently issued code.
C38_EveryResponseCarriesCode ==
    [][\A s \in SessionIds : HoldingTurn(s) =>
        /\ CodeKept(s)
        /\ "discount_code" \in DOMAIN response'.body
        /\ response'.body.discount_code = sessions'[s].last_discount_code[1]]_vars

\* C38: once a code was issued last_discount_code is never cleared and changes
\* only when a new code is issued, and every later successful response of the
\* session, consent answers and turns without negotiation intent included,
\* carries the most recently issued code.
C38_SuccessfulResponsesCarryCode ==
    [][\A s \in SessionIds : HoldingTurn(s) =>
        /\ CodeKept(s)
        /\ sessions'[s].last_discount_code /= None
        /\ response'.status = 200 =>
            /\ "discount_code" \in DOMAIN response'.body
            /\ response'.body.discount_code = sessions'[s].last_discount_code[1]]_vars

\* the answer to a consent prompt carried the code issued a turn earlier
C38_ConsentAnswerCarriesCode ==
    /\ request.op = "chat" /\ request.message = "Yes"
    /\ Dispatches(calls) /= {}
    /\ response.status = 200
    /\ "discount_code" \in DOMAIN response.body
    /\ Some(response.body.discount_code)
        = sessions[request.session_id].last_discount_code

-----------------------------------------------------------------------------
(* The limit of three codes (SpecHaggle) *)

\* C33: a session is issued at most 3 discount codes: once the counter is 3
\* a further turn with negotiation intent and a detected trait issues no
\* code, adds no discount note and leaves the negotiation unchanged.
C33_AtMostThreeCodes ==
    [][\A s \in DOMAIN sessions :
        /\ Cardinality(DiscountNotes(sessions'[s].conversation_history)) <= max_counters
        /\ (/\ request'.op = "chat" /\ request'.session_id = s
            /\ Negotiation(negotiations, s).counter = max_counters
            /\ detect_negotiation_intent(request'.message).should_offer_discount
            /\ sessions'[s].detected_traits /= <<>>)
            => /\ ShopCalls(calls') = {}
               /\ NotedCodes(Appended(s)) = {}
               /\ DiscountNotes(Appended(s)) = {}
               /\ sessions'[s].last_discount_code = sessions[s].last_discount_code
               /\ negotiations'[s] = negotiations[s]]_vars

\* a fourth haggling turn after three codes: answered, and nothing issued
C33_FourthTurnRefused ==
    /\ request.op = "chat" /\ response.status = 200
    /\ negotiations[request.session_id].counter = max_counters
    /\ Cardinality(DiscountNotes(sessions[request.session_id].conversation_history))
        = max_counters
    /\ Cardinality(WithRole(sessions[request.session_id].conversation_history, "user"))
        > max_counters
    /\ sessions[request.session_id].detected_traits /= <<>>
    /\ calls = <<[api |-> "llm"]>>

=============================================================================
